---- MODULE Spec2Model ----
(***************************************************************************)
(* Streaming analytics platform: the consumer loops of the basic          *)
(* processor (src/processor/processor.py), the advanced stage processor   *)
(* (src/services/processor-advanced/processor.py) and the ML detector     *)
(* (src/services/ml-detector/ml_detector.py) over a Redis stream with a   *)
(* consumer group.                                                        *)
(*                                                                         *)
(* The three programs are separate processes over separate streams; the   *)
(* variable sys says which one a behaviour is about. The component        *)
(* classes of the advanced producer and processor (CircuitBreaker,        *)
(* AdaptiveRateLimiter, SlidingWindow, ComplexEventProcessor) are         *)
(* modelled on their own as well.                                         *)
(***************************************************************************)
EXTENDS Integers, Sequences, FiniteSets, TLC

VARIABLES
    sys,      \* the program or component class this behaviour runs
    stream,   \* the input stream with its consumer-group state, in id order
    cons,     \* basic processor: per consumer name, the loop's local state
    faults,   \* remaining injected faults (store, stage and output errors)
    adv,      \* advanced stage processor: the run loop's local state
    out,      \* OUTPUT_STREAM "processed_events" as written by the processor
    idem,     \* history of the idempotency check: tuples submitted, last call
    completed,\* history: event tuples whose stage processing returned
    tries,    \* history: how often each stream entry was handled (adv, ml)
    raised,   \* history: stream entries whose handling raised (adv, ml)
    ml,       \* ML detector: the process_events loop's local state
    anomalies,\* external store: the anomaly:<event_id> hashes with their TTL
    alerts,   \* the anomaly_alerts stream
    storeFailed, \* history: entries during whose handling a store write failed
    now,      \* time.time(), in seconds (breaker, limiter, producer, window)
    cb,       \* the CircuitBreaker with the outcome of the last call through it
    rl,       \* the AdaptiveRateLimiter with the last operation on it
    prod,     \* advanced producer: history of the run loop's batch writes
    win,      \* the SlidingWindow with the history of the events added to it
    cep,      \* the ComplexEventProcessor: one session's buffer, last result
    det,      \* the AdvancedAnomalyDetector: its model and the last analysis
    src,      \* basic producer: the argument and the result of make_event
    agg,      \* the AGG_KEY hash of the store and the last update_aggregates
    ml_detector,    \* stage processor: the MLAnomalyDetector of ml_inference
    user_baselines, \* ML detector: user_baselines[user_id] of one user
    svc       \* ML detector: the process_events loop and its feature buffer

vars == <<sys, stream, cons, faults, adv, out, idem, completed, tries, raised,
          ml, anomalies, alerts, storeFailed, now, cb, rl, prod,
          win, cep, det, src, agg, ml_detector, user_baselines, svc>>

\* the state of the learned scorers and the detector's baselines
scoringVars == <<ml_detector, user_baselines, svc>>

\* the state of the advanced producer's and processor's component classes
unitVars == <<now, cb, rl, prod, win, cep, det, src, agg, scoringVars>>

basicVars == <<cons>>
advVars == <<adv, out, idem, completed>>
mlVars == <<ml, anomalies, alerts, storeFailed>>
histVars == <<tries, raised>>

----------------------------------------------------------------------------
(* Bounds of the model *)

MaxStream == 2        \* basic: stream entries the model holds at a time
MaxBacklog == 11      \* basic: pending entries a terminated consumer left
MaxPipeStream == 3    \* adv, ml: messages appended to the input stream
MaxFaults == 1        \* injected transient errors of each kind
MaxCounted == 2       \* basic: total_count increments followed per message

----------------------------------------------------------------------------
(* Program constants *)

READ_COUNT == 100           \* xreadgroup count=100
PENDING_RANGE_COUNT == 10   \* xpending_range count=10
IDLE_THRESHOLD == 30000     \* if idle_time > 30000
MIN_IDLE_TIME == 30000      \* xclaim min_idle_time=30000

Consumers == {"proc-1", "proc-2"}

Min(a, b) == IF a < b THEN a ELSE b

Range(s) == {s[i] : i \in DOMAIN s}

\* The first n elements of a sequence
FirstN(s, n) == SubSeq(s, 1, Min(n, Len(s)))

\* Idle times are only ever compared with the threshold (idle_time > 30000
\* in the loop, idle >= min_idle_time in XCLAIM): time advances in steps of
\* the threshold, and an idle time above it is tracked as twice the threshold.
TickMs == IDLE_THRESHOLD

IdleCapMs == 2 * IDLE_THRESHOLD

----------------------------------------------------------------------------
(* The stream and its consumer group (the Redis commands the loops call).  *)
(* stream is the sequence of entries in id order. Redis ids are only ever  *)
(* compared for order and equality, so an entry's id is its position in    *)
(* the sequence.                                                           *)

\* History of an entry: orphan, a consumer terminated holding it; counted,
\* how often total_count was incremented for it (MaxCounted: more than
\* once); missed, it was appended while no processor was running.
NewEntry(data) ==
    [data |-> data, st |-> "new", idle |-> 0, orphan |-> FALSE,
     counted |-> 0, missed |-> FALSE]

Entry(id) == stream[id]

IsNew(e) == e.st = "new"

IsPending(e) == e.st = "pending"

\* the group's pending entries list, as ids
PendingIds == {k \in DOMAIN stream : IsPending(stream[k])}

AckedIds == {k \in DOMAIN stream : stream[k].st = "acked"}

\* the ids among 1 .. n that are in the set K, in order
IdSeq(K, n) ==
    LET InK(k) == k \in K
    IN SelectSeq([k \in 1 .. n |-> k], InK)

\* XREADGROUP group consumer {stream: '>'} count=n: the ids it returns, the
\* first n entries never delivered to the group
XReadGroupIds(n) ==
    FirstN(IdSeq({k \in DOMAIN stream : IsNew(stream[k])}, Len(stream)), n)

\* the stream after XREADGROUP delivered ids: they enter the pending list
Delivered(ids) ==
    [k \in DOMAIN stream |->
        IF k \in Range(ids)
        THEN [stream[k] EXCEPT !.st = "pending", !.idle = 0]
        ELSE stream[k]]

\* XACK stream group id: removes the id from the pending list, whoever owns it
XAck(id) ==
    [k \in DOMAIN stream |->
        IF k = id /\ stream[k].st = "pending"
        THEN [stream[k] EXCEPT !.st = "acked"]
        ELSE stream[k]]

\* XPENDING stream group - + count=n: the first n pending entries, by id
XPendingRange(n) ==
    LET ids == FirstN(IdSeq(PendingIds, Len(stream)), n)
    IN [i \in DOMAIN ids |->
          [message_id |-> ids[i], time_since_delivered |-> stream[ids[i]].idle]]

\* XClaimable without the pending-list test: the id is claimed whether or
\* not it is pending
XClaimableForce(id, minIdle) ==
    /\ id \in DOMAIN stream
    /\ Entry(id).idle >= minIdle

\* XCLAIM stream group c min_idle_time id: whether the id is claimed: it
\* must be in the pending list and idle for at least min_idle_time
XClaimable(id, minIdle) ==
    /\ id \in PendingIds
    /\ Entry(id).idle >= minIdle

\* XClaimed without the new delivery time: the entry keeps its idle time
XClaimedIdleKept(id) == stream

\* the stream after XCLAIM transferred id: its idle time starts again
XClaimed(id) ==
    [k \in DOMAIN stream |->
        IF k = id THEN [stream[k] EXCEPT !.idle = 0] ELSE stream[k]]

----------------------------------------------------------------------------
(* Basic processor: src/processor/processor.py *)

BasicEvent == "ev"

\* batch: the messages of resp still to handle; plist: the entries of
\* `pending` still to examine; result: what process_message returned.
IdleConsumer ==
    [alive |-> TRUE, pc |-> "poll", batch |-> <<>>, plist |-> <<>>,
     result |-> "none"]

\* stream ids the loop of a consumer in local state l still holds
Refs(l) == Range(l.batch) \cup {p.message_id : p \in Range(l.plist)}

\* An entry that is acknowledged and held by no loop can never be named
\* again (XREADGROUP '>' and XPENDING do not return it): the model forgets
\* it, and the entries after it move up one position. Kept(s, cs) are the
\* positions of the entries of s that stay when the consumers' local states
\* are cs.
Kept(s, cs) ==
    {k \in DOMAIN s :
        ~(s[k].st = "acked" /\ \A c \in Consumers : k \notin Refs(cs[c]))}

\* the position among the entries K of the one that was at position k
Rank(K, k) == Cardinality({j \in K : j <= k})

\* the stream s without the forgotten entries
Forget(s, cs) ==
    LET K == Kept(s, cs)
    IN [i \in 1 .. Cardinality(K) |-> s[CHOOSE k \in K : Rank(K, k) = i]]

\* the consumers' local states naming the entries by their new positions
Renamed(s, cs) ==
    LET K == Kept(s, cs)
    IN [c \in Consumers |->
          [cs[c] EXCEPT
              !.batch = [i \in DOMAIN @ |-> Rank(K, @[i])],
              !.plist = [i \in DOMAIN @ |->
                            [@[i] EXCEPT !.message_id = Rank(K, @)]]]]

\* producer.run: r.xadd(STREAM_KEY, ev)
ProducerXAdd ==
    /\ sys = "basic"
    /\ Len(stream) < MaxStream
    /\ stream' = Append(stream,
                  [NewEntry(BasicEvent) EXCEPT
                      !.missed = \A c \in Consumers : ~cons[c].alive])
    /\ UNCHANGED <<sys, unitVars, cons, faults, advVars, mlVars, histVars>>

\* what the loop does after a message (or pending entry) has been dealt with
AfterMessage(l) ==
    IF Len(l.batch) > 1
    THEN [l EXCEPT !.batch = Tail(@), !.pc = "process", !.result = "none"]
    ELSE [l EXCEPT !.batch = <<>>, !.pc = "poll", !.result = "none"]

AfterPending(l) ==
    IF Len(l.plist) > 1
    THEN [l EXCEPT !.plist = Tail(@), !.pc = "recover", !.result = "none"]
    ELSE [l EXCEPT !.plist = <<>>, !.pc = "poll", !.result = "none"]

\* process_loop: xreadgroup, and with no new message xpending and
\* xpending_range (lines 105-125, 148-150)
Poll(c) ==
    /\ sys = "basic"
    /\ cons[c].alive /\ cons[c].pc = "poll"
    /\ LET resp == XReadGroupIds(READ_COUNT)
           pending == XPendingRange(PENDING_RANGE_COUNT)
       IN IF resp # <<>>
          THEN /\ stream' = Delivered(resp)
               /\ cons' = [cons EXCEPT ![c].batch = resp, ![c].pc = "process"]
          ELSE /\ PendingIds # {}
               /\ cons' = [cons EXCEPT ![c].plist = pending, ![c].pc = "recover"]
               /\ UNCHANGED stream
    /\ UNCHANGED <<sys, unitVars, faults, advVars, mlVars, histVars>>

\* ShouldAck without the test: the loop acknowledges whatever
\* process_message returned
ShouldAckAlways(result) == TRUE

\* `if process_message(...)`: whether the loop acknowledges (lines 143, 155)
ShouldAck(result) == result = "True"

\* the stream after update_aggregates ran for the message id: n is 1 when
\* r.hincrby(AGG_KEY, "total_count", 1) (line 74) was executed, 0 when a
\* call before it raised
Counted(id, n) ==
    [k \in DOMAIN stream |->
        IF k = id
        THEN [stream[k] EXCEPT !.counted = Min(@ + n, MaxCounted)]
        ELSE stream[k]]

\* what update_aggregates can have added to total_count when
\* process_message returns result: with False a call before line 74 raised
\* or the hset after it (line 75)
Increments(result) == IF result = "True" THEN {1} ELSE {0, 1}

\* process_message(msg_id, data) in the loop over new messages (line 155)
\* returns result: update_aggregates returns and it returns True, or a
\* store call raises and it returns False
ProcessMessageReturns(c, result) ==
    /\ sys = "basic"
    /\ cons[c].alive /\ cons[c].pc = "process"
    /\ IF result = "False"
       THEN faults.store > 0 /\ faults' = [faults EXCEPT !.store = @ - 1]
       ELSE UNCHANGED faults
    /\ \E n \in Increments(result) :
          LET l == [cons[c] EXCEPT !.result = result]
              cs == [cons EXCEPT ![c] =
                        IF ShouldAck(result) THEN [l EXCEPT !.pc = "ack"]
                        ELSE AfterMessage(l)]
              s == Counted(Head(cons[c].batch), n)
          IN /\ cons' = Renamed(s, cs)
             /\ stream' = Forget(s, cs)
    /\ UNCHANGED <<sys, unitVars, advVars, mlVars, histVars>>

\* r.xack(STREAM_KEY, CONSUMER_GROUP, msg_id) (line 156)
Ack(c) ==
    /\ sys = "basic"
    /\ cons[c].alive /\ cons[c].pc = "ack"
    /\ LET cs == [cons EXCEPT ![c] = AfterMessage(cons[c])]
           s == XAck(Head(cons[c].batch))
       IN /\ cons' = Renamed(s, cs)
          /\ stream' = Forget(s, cs)
    /\ UNCHANGED <<sys, unitVars, faults, advVars, mlVars, histVars>>

\* the recovery pass's test of one listed entry (line 132)
ShouldClaim(p) == p.time_since_delivered > IDLE_THRESHOLD

\* the recovery pass for one listed entry: the idle test and xclaim
\* (lines 127-142); xclaim returns the message or nothing
RecoverClaim(c) ==
    /\ sys = "basic"
    /\ cons[c].alive /\ cons[c].pc = "recover"
    /\ LET p == Head(cons[c].plist)
       IN IF ShouldClaim(p) /\ XClaimable(p.message_id, MIN_IDLE_TIME)
          THEN /\ stream' = XClaimed(p.message_id)
               /\ cons' = [cons EXCEPT ![c].pc = "rprocess"]
          ELSE LET cs == [cons EXCEPT ![c] = AfterPending(cons[c])]
               IN /\ cons' = Renamed(stream, cs)
                  /\ stream' = Forget(stream, cs)
    /\ UNCHANGED <<sys, unitVars, faults, advVars, mlVars, histVars>>

\* process_message(c_msg_id, c_data) on a claimed message (line 143)
\* returns result
RecoverProcessReturns(c, result) ==
    /\ sys = "basic"
    /\ cons[c].alive /\ cons[c].pc = "rprocess"
    /\ IF result = "False"
       THEN faults.store > 0 /\ faults' = [faults EXCEPT !.store = @ - 1]
       ELSE UNCHANGED faults
    /\ \E n \in Increments(result) :
          LET l == [cons[c] EXCEPT !.result = result]
              cs == [cons EXCEPT ![c] =
                        IF ShouldAck(result) THEN [l EXCEPT !.pc = "rack"]
                        ELSE AfterPending(l)]
              s == Counted(Head(cons[c].plist).message_id, n)
          IN /\ cons' = Renamed(s, cs)
             /\ stream' = Forget(s, cs)
    /\ UNCHANGED <<sys, unitVars, advVars, mlVars, histVars>>

\* r.xack(STREAM_KEY, CONSUMER_GROUP, c_msg_id) (line 144)
RecoverAck(c) ==
    /\ sys = "basic"
    /\ cons[c].alive /\ cons[c].pc = "rack"
    /\ LET cs == [cons EXCEPT ![c] = AfterPending(cons[c])]
           s == XAck(Head(cons[c].plist).message_id)
       IN /\ cons' = Renamed(s, cs)
          /\ stream' = Forget(s, cs)
    /\ UNCHANGED <<sys, unitVars, faults, advVars, mlVars, histVars>>

\* the messages a consumer in local state l has read or claimed and not yet
\* acknowledged
InFlight(l) ==
    CASE l.pc \in {"process", "ack"} -> Range(l.batch)
      [] l.pc \in {"rprocess", "rack"} -> {Head(l.plist).message_id}
      [] OTHER -> {}

\* the process is stopped: its local variables are gone, what it read and
\* did not acknowledge stays in the pending list
Stop(c) ==
    /\ sys = "basic"
    /\ cons[c].alive
    /\ LET cs == [cons EXCEPT ![c] = [IdleConsumer EXCEPT !.alive = FALSE]]
           s == [k \in DOMAIN stream |->
                    IF k \in InFlight(cons[c]) /\ IsPending(stream[k])
                    THEN [stream[k] EXCEPT !.orphan = TRUE]
                    ELSE stream[k]]
       IN /\ cons' = Renamed(s, cs)
          /\ stream' = Forget(s, cs)
    /\ UNCHANGED <<sys, unitVars, faults, advVars, mlVars, histVars>>

\* the process terminates while another consumer of the group stays alive
Crash(c) ==
    /\ \E d \in Consumers \ {c} : cons[d].alive
    /\ Stop(c)

\* Restart with a group that starts at the end of the stream: what was
\* appended before the start is never delivered
RestartAtEnd(c) ==
    /\ sys = "basic"
    /\ ~cons[c].alive
    /\ cons' = [cons EXCEPT ![c] = IdleConsumer]
    /\ stream' = [k \in DOMAIN stream |->
                    IF IsNew(stream[k])
                    THEN [stream[k] EXCEPT !.st = "skipped"]
                    ELSE stream[k]]
    /\ UNCHANGED <<sys, unitVars, faults, advVars, mlVars, histVars>>

\* the process is started again under its consumer name: ensure_group finds
\* the group, which kept its last delivered id and its pending list (lines
\* 38-46), and the loop starts
Restart(c) ==
    /\ sys = "basic"
    /\ ~cons[c].alive
    /\ cons' = [cons EXCEPT ![c] = IdleConsumer]
    /\ UNCHANGED <<sys, unitVars, stream, faults, advVars, mlVars, histVars>>

\* time passes: every pending entry's idle time grows (only the basic
\* processor reads idle times)
Tick ==
    /\ sys = "basic"
    /\ stream' = [k \in DOMAIN stream |->
                    IF IsPending(stream[k])
                    THEN [stream[k] EXCEPT !.idle = Min(@ + TickMs, IdleCapMs)]
                    ELSE stream[k]]
    /\ UNCHANGED <<sys, unitVars, cons, faults, advVars, mlVars, histVars>>

----------------------------------------------------------------------------
(* Advanced stage processor: src/services/processor-advanced/processor.py *)

STAGE == "enrichment"

BATCH_SIZE == 100           \* BATCH_SIZE = int(os.getenv('BATCH_SIZE', '100'))

Malformed == [raw |-> "not json"]

\* the events the producer serialises; ids may contain the ':' that
\* generate_idempotency_key uses as its separator
Events == [event_id : {"a", "a:b"}, user_id : {"c", "b:c"}, timestamp : {1}]

\* hashlib.sha256(...).hexdigest(): taken to be free of collisions, the
\* digest stands for the string it was computed from
Sha256(s) == [hexdigest_of |-> s]

\* AdvancedProcessor.generate_idempotency_key
generate_idempotency_key(event) ==
    LET key_data == event.event_id \o ":" \o event.user_id \o ":"
                    \o ToString(event.timestamp) \o ":" \o STAGE
    IN Sha256(key_data)

\* orjson.loads(fields['data']) raises on a payload that is not JSON
ParseFails(data) == data = Malformed

ProcessedEvent(event) ==
    [original_event |-> event, stage |-> STAGE,
     idempotency_key |-> generate_idempotency_key(event)]

\* batch: the messages of `streams` still to handle. History of the cycle
\* under way: returned, the ids for which the loop body ran to its end, and
\* failed, the ids for which it raised.
NoAdv == [pc |-> "read", batch |-> <<>>, processed_events |-> <<>>,
          ack_ids |-> <<>>, idempotency_cache |-> {},
          returned |-> {}, failed |-> {}]

\* AdvancedEventProducer.produce_batch: pipeline.xadd(stream_key, {"data": ...})
AdvProducerXAdd(data) ==
    /\ sys = "adv"
    /\ Len(stream) < MaxPipeStream
    /\ stream' = Append(stream, NewEntry(data))
    /\ tries' = Append(tries, 0)
    /\ UNCHANGED <<sys, unitVars, cons, faults, advVars, mlVars, raised>>

\* run: xreadgroup(..., {INPUT_STREAM: '>'}, count=BATCH_SIZE) returned
\* messages (lines 431-444); with none the loop continues
AdvRead ==
    /\ sys = "adv"
    /\ adv.pc = "read"
    /\ LET streams == XReadGroupIds(BATCH_SIZE)
       IN /\ streams # <<>>
          /\ stream' = Delivered(streams)
          /\ adv' = [adv EXCEPT !.pc = "handle", !.batch = streams,
                                !.processed_events = <<>>, !.ack_ids = <<>>,
                                !.returned = {}, !.failed = {}]
    /\ UNCHANGED <<sys, unitVars, cons, faults, out, idem, completed, mlVars, histVars>>

AdvAfterMessage(a) ==
    IF Len(a.batch) > 1 THEN [a EXCEPT !.batch = Tail(@)]
    ELSE [a EXCEPT !.batch = <<>>, !.pc = "write"]

\* the idempotency check of process_event (lines 355-360): whether the event
\* is let through
PassesIdempotency(event, cache) == generate_idempotency_key(event) \notin cache

\* ack_ids after the loop body for msg_id: the append of line 455 is
\* reached when process_event returned, not when the body raised
AckIdsAfter(ack_ids, msg_id, body_returned) ==
    IF body_returned THEN Append(ack_ids, msg_id) ELSE ack_ids

\* the history of the idempotency check after a call with event
IdemAfter(event, passed) ==
    [before |-> idem.before \cup {idem.last[k].ev : k \in DOMAIN idem.last},
     last |-> <<[ev |-> event, passed |-> passed]>>]

\* run: the body of the loop over the batch's messages (lines 447-458),
\* with process_event (lines 346-417)
AdvHandleMessage ==
    /\ sys = "adv"
    /\ adv.pc = "handle"
    /\ LET msg_id == Head(adv.batch)
           data == Entry(msg_id).data
           a == AdvAfterMessage(adv)
       IN /\ tries' = [tries EXCEPT ![msg_id] = Min(@ + 1, 2)]
          /\ IF ParseFails(data)
             THEN \* orjson.loads raised: logged, not appended to ack_ids
                  /\ adv' = [a EXCEPT !.ack_ids = AckIdsAfter(@, msg_id, FALSE),
                                      !.failed = @ \cup {msg_id}]
                  /\ UNCHANGED <<idem, completed, raised, faults>>
             ELSE IF ~PassesIdempotency(data, adv.idempotency_cache)
             THEN \* process_event returned None: appended to ack_ids
                  /\ adv' = [a EXCEPT !.ack_ids = AckIdsAfter(@, msg_id, TRUE),
                                      !.returned = @ \cup {msg_id}]
                  /\ idem' = IdemAfter(data, FALSE)
                  /\ UNCHANGED <<completed, raised, faults>>
             ELSE /\ idem' = IdemAfter(data, TRUE)
                  /\ \/ \* the stage processing raised: logged
                        /\ faults.stage > 0
                        /\ faults' = [faults EXCEPT !.stage = @ - 1]
                        /\ adv' = [a EXCEPT
                              !.idempotency_cache =
                                  @ \cup {generate_idempotency_key(data)},
                              !.ack_ids = AckIdsAfter(@, msg_id, FALSE),
                              !.failed = @ \cup {msg_id}]
                        /\ raised' = raised \cup {msg_id}
                        /\ UNCHANGED completed
                     \/ \* process_event returned the ProcessedEvent
                        /\ adv' = [a EXCEPT
                              !.idempotency_cache =
                                  @ \cup {generate_idempotency_key(data)},
                              !.processed_events = Append(@, ProcessedEvent(data)),
                              !.ack_ids = AckIdsAfter(@, msg_id, TRUE),
                              !.returned = @ \cup {msg_id}]
                        /\ completed' = completed \cup {data}
                        /\ UNCHANGED <<raised, faults>>
    /\ UNCHANGED <<sys, unitVars, stream, cons, out, mlVars>>

\* AdvWriteOutput with the acknowledgements made also after pipeline.execute
\* raised
AdvWriteOutputAcksAnyway ==
    /\ sys = "adv"
    /\ adv.pc = "write"
    /\ \/ /\ out' = out \o adv.processed_events
          /\ UNCHANGED faults
       \/ /\ adv.processed_events # <<>>
          /\ faults.output > 0
          /\ faults' = [faults EXCEPT !.output = @ - 1]
          /\ UNCHANGED out
    /\ adv' = IF adv.ack_ids # <<>> THEN [adv EXCEPT !.pc = "ack"]
              ELSE [adv EXCEPT !.pc = "read"]
    /\ UNCHANGED <<sys, unitVars, stream, cons, idem, completed, mlVars, histVars>>


\* run: the pipeline of xadd to OUTPUT_STREAM (lines 461-468); when
\* pipeline.execute raises the outer handler logs, sleeps and the loop
\* starts over (lines 474-476)
AdvWriteOutput ==
    /\ sys = "adv"
    /\ adv.pc = "write"
    /\ \/ /\ out' = out \o adv.processed_events
          /\ adv' = IF adv.ack_ids # <<>> THEN [adv EXCEPT !.pc = "ack"]
                    ELSE [adv EXCEPT !.pc = "read"]
          /\ UNCHANGED faults
       \/ /\ adv.processed_events # <<>>
          /\ faults.output > 0
          /\ faults' = [faults EXCEPT !.output = @ - 1]
          /\ adv' = [adv EXCEPT !.pc = "read"]
          /\ UNCHANGED out
    /\ UNCHANGED <<sys, unitVars, stream, cons, idem, completed, mlVars, histVars>>

\* run: xack of the next id of ack_ids (lines 471-472)
AdvAck ==
    /\ sys = "adv"
    /\ adv.pc = "ack"
    /\ stream' = XAck(Head(adv.ack_ids))
    /\ adv' = IF Len(adv.ack_ids) > 1 THEN [adv EXCEPT !.ack_ids = Tail(@)]
              ELSE [adv EXCEPT !.ack_ids = <<>>, !.pc = "read"]
    /\ UNCHANGED <<sys, unitVars, cons, faults, out, idem, completed, mlVars, histVars>>

----------------------------------------------------------------------------
(* ML detector: src/services/ml-detector/ml_detector.py *)

ML_READ_COUNT == 50         \* xreadgroup count=50
ANOMALY_TTL == 86400        \* expire(anomaly_key, 86400)
ANOMALY_THRESHOLD == 7      \* combined_score > 0.7, in tenths
BUFFER_THRESHOLD == 5       \* combined_score > 0.5, in tenths

NO_TTL == 0 - 1

\* the ProcessedEvents on the detector's input stream
ProcessedData == [original_event : [event_id : {"e1", "e2"}]]

\* combined scores analyze_event may arrive at, in tenths
Scores == {6, 8}

\* AdvancedAnomalyDetector.analyze_event: the result for an event that the
\* scorers gave combined_score (lines 291-304)
Analysis(event, combined_score) ==
    [event_id |-> event.event_id,
     combined_anomaly_score |-> combined_score,
     is_anomaly |-> combined_score > ANOMALY_THRESHOLD]

\* History: analysis, the result of the last analyze_event call.
NoMl == [pc |-> "read", batch |-> <<>>,
         analysis |-> Analysis([event_id |-> ""], 0)]

\* the processor's pipeline.xadd(OUTPUT_STREAM, {'data': output_data}), or
\* any other writer to "processed_events"
ProcessedXAdd(data) ==
    /\ sys = "ml"
    /\ Len(stream) < MaxPipeStream
    /\ stream' = Append(stream, NewEntry(data))
    /\ tries' = Append(tries, 0)
    /\ UNCHANGED <<sys, unitVars, cons, faults, advVars, mlVars, raised>>

\* process_events: xreadgroup(..., {"processed_events": '>'}, count=50)
\* returned messages (lines 357-363)
MlRead ==
    /\ sys = "ml"
    /\ ml.pc = "read"
    /\ LET streams == XReadGroupIds(ML_READ_COUNT)
       IN /\ streams # <<>>
          /\ stream' = Delivered(streams)
          /\ ml' = [ml EXCEPT !.pc = "handle", !.batch = streams]
    /\ UNCHANGED <<sys, unitVars, cons, faults, advVars, anomalies, alerts, storeFailed,
                   histVars>>

MlAfterMessage(m) ==
    IF Len(m.batch) > 1 THEN [m EXCEPT !.batch = Tail(@), !.pc = "handle"]
    ELSE [m EXCEPT !.batch = <<>>, !.pc = "read"]

\* store_anomaly (lines 396-421): hset, expire, xadd in turn; a call that
\* raises ends it, the handler logs the error and store_anomaly returns.
\* failed_at names the call that raised, "none" when none did.
StoredAnomalies(analysis, failed_at) ==
    CASE failed_at = "hset" -> anomalies
      [] failed_at = "expire" ->
           {r \in anomalies : r.key # analysis.event_id}
               \cup {[key |-> analysis.event_id, ttl |-> NO_TTL]}
      [] OTHER ->
           {r \in anomalies : r.key # analysis.event_id}
               \cup {[key |-> analysis.event_id, ttl |-> ANOMALY_TTL]}

StoredAlerts(analysis, failed_at) ==
    IF failed_at = "none" THEN Append(alerts, analysis.event_id) ELSE alerts

\* process_events: the body of the loop over the messages up to the xack
\* (lines 374-385)
MlHandleMessage ==
    /\ sys = "ml"
    /\ ml.pc = "handle"
    /\ LET msg_id == Head(ml.batch)
           data == Entry(msg_id).data
       IN /\ tries' = [tries EXCEPT ![msg_id] = Min(@ + 1, 2)]
          /\ IF ParseFails(data)
             THEN \* orjson.loads raised: logged, no xack
                  /\ ml' = MlAfterMessage(ml)
                  /\ UNCHANGED <<faults, anomalies, alerts, storeFailed, raised>>
             ELSE \/ \* analyze_event raised: logged, no xack
                     /\ faults.stage > 0
                     /\ faults' = [faults EXCEPT !.stage = @ - 1]
                     /\ ml' = MlAfterMessage(ml)
                     /\ raised' = raised \cup {msg_id}
                     /\ UNCHANGED <<anomalies, alerts, storeFailed>>
                  \/ \E score \in Scores :
                       LET analysis == Analysis(data.original_event, score)
                       IN IF ~analysis.is_anomaly
                          THEN /\ ml' = [ml EXCEPT !.pc = "ack",
                                                   !.analysis = analysis]
                               /\ UNCHANGED <<faults, anomalies, alerts,
                                              storeFailed, raised>>
                          ELSE \E failed_at \in {"none", "hset", "expire", "xadd"} :
                                 /\ IF failed_at = "none" THEN UNCHANGED faults
                                    ELSE /\ faults.store > 0
                                         /\ faults' = [faults EXCEPT !.store = @ - 1]
                                 /\ anomalies' = StoredAnomalies(analysis, failed_at)
                                 /\ alerts' = StoredAlerts(analysis, failed_at)
                                 /\ storeFailed' =
                                      IF failed_at = "none" THEN storeFailed
                                      ELSE storeFailed \cup {msg_id}
                                 /\ ml' = [ml EXCEPT !.pc = "ack",
                                                     !.analysis = analysis]
                                 /\ UNCHANGED raised
    /\ UNCHANGED <<sys, unitVars, stream, cons, advVars>>

\* process_events: xack(stream_name, CONSUMER_GROUP, msg_id) (line 387)
MlAck ==
    /\ sys = "ml"
    /\ ml.pc = "ack"
    /\ stream' = XAck(Head(ml.batch))
    /\ ml' = MlAfterMessage(ml)
    /\ UNCHANGED <<sys, unitVars, cons, faults, advVars, anomalies, alerts, storeFailed,
                   histVars>>

----------------------------------------------------------------------------
(* CircuitBreaker: src/services/producer-advanced/producer.py *)

MaxTicks == 6             \* steps of the clock
MaxFailureCount == 7      \* failure_count the model lets the breaker reach

FAILURE_THRESHOLD == 5    \* failure_threshold: int = 5
TIMEOUT == 60             \* timeout: int = 60

None == 0 - 1

\* the variables of the three consumer loops
loopVars == <<stream, cons, faults, advVars, mlVars, histVars>>

\* CircuitBreaker.__init__. History of the last call through the breaker:
\* invoked, whether the wrapped function was invoked; outcome, how the call
\* ended ("returned", "raised" by the function, "open" for the breaker's own
\* exception); probe, whether the call was made in state half-open; run,
\* the number of calls, all failing, made since the breaker was closed with
\* failure_count 0 (None once another kind of call has been made).
NewBreaker ==
    [state |-> "closed", failure_count |-> 0, last_failure_time |-> None,
     invoked |-> FALSE, outcome |-> "none", probe |-> FALSE, run |-> 0]

\* TimeoutElapsed with >= for >
TimeoutElapsedAt(b, t) == t - b.last_failure_time >= TIMEOUT

\* `time.time() - self.last_failure_time > self.timeout` (line 90)
TimeoutElapsed(b, t) == t - b.last_failure_time > TIMEOUT

\* Trips with > for >=
TripsLate(failure_count) == failure_count > FAILURE_THRESHOLD

\* `self.failure_count >= self.failure_threshold` (line 106)
Trips(failure_count) == failure_count >= FAILURE_THRESHOLD

\* AfterSuccess without the reset of failure_count
AfterSuccessKeepCount(b) ==
    IF b.state = "half-open" THEN [b EXCEPT !.state = "closed"] ELSE b

\* AfterSuccess with failure_count reset by every successful call
AfterSuccessResets(b) == [b EXCEPT !.state = "closed", !.failure_count = 0]

\* the breaker after the wrapped function returned (lines 98-100)
AfterSuccess(b) ==
    IF b.state = "half-open"
    THEN [b EXCEPT !.state = "closed", !.failure_count = 0]
    ELSE b

\* AfterFailure without the test of failure_count: the state stays
AfterFailureKeepsState(b, t) ==
    [b EXCEPT !.failure_count = @ + 1, !.last_failure_time = t]

\* the breaker after the wrapped function raised at time t (lines 103-107)
AfterFailure(b, t) ==
    [b EXCEPT !.failure_count = @ + 1,
              !.last_failure_time = t,
              !.state = IF Trips(b.failure_count + 1) THEN "open" ELSE @]

\* CircuitBreaker.call(func) at time t, func raising or not
CircuitBreakerCall(b, t, func_raises) ==
    IF b.state = "open" /\ ~TimeoutElapsed(b, t)
    THEN [b EXCEPT !.invoked = FALSE, !.outcome = "open", !.probe = FALSE,
                   !.run = None]
    ELSE LET entered == IF b.state = "open"
                        THEN [b EXCEPT !.state = "half-open"] ELSE b
             after == IF func_raises THEN AfterFailure(entered, t)
                      ELSE AfterSuccess(entered)
         IN [after EXCEPT
                !.invoked = TRUE,
                !.outcome = IF func_raises THEN "raised" ELSE "returned",
                !.probe = entered.state = "half-open",
                !.run = IF func_raises
                        THEN (IF b.run = None THEN None ELSE b.run + 1)
                        ELSE (IF after.state = "closed" /\ after.failure_count = 0
                              THEN 0 ELSE None)]

\* a call through the breaker of a function that raises or returns
BreakerCall(func_raises) ==
    /\ sys = "breaker"
    /\ func_raises => cb.failure_count < MaxFailureCount
    /\ cb' = CircuitBreakerCall(cb, now, func_raises)
    /\ UNCHANGED <<now, sys, loopVars, rl, prod, win, cep, det, src, agg, scoringVars>>

\* time passes, half a timeout at a time
BreakerTick ==
    /\ sys = "breaker"
    /\ now < MaxTicks * (TIMEOUT \div 2)
    /\ now' = now + TIMEOUT \div 2
    /\ UNCHANGED <<cb, sys, loopVars, rl, prod, win, cep, det, src, agg, scoringVars>>

----------------------------------------------------------------------------
(* AdaptiveRateLimiter: src/services/producer-advanced/producer.py *)

MaxSuccessCount == 200    \* success_count the model lets the limiter reach
MaxErrorCount == 5        \* error_count the model lets the limiter reach

BASE_RATE == 1000         \* BASE_RATE = int(os.getenv("BASE_RATE", "1000"))
ADJUST_INTERVAL == 10     \* if now - self.last_adjustment > 10
ClockStep == 5            \* seconds between two readings of the clock

\* Rates are floats in the source; the model keeps them as exact fractions
\* num/den in lowest terms.
RECURSIVE GCD(_, _)
GCD(a, b) == IF b = 0 THEN a ELSE GCD(b, a % b)

Whole(k) == [num |-> k, den |-> 1]

\* r * n / d
Times(r, n, d) ==
    LET n0 == n \div GCD(n, d)
        d0 == d \div GCD(n, d)
        g == GCD(r.num, d0)
        h == GCD(n0, r.den)
    IN  [num |-> (r.num \div g) * (n0 \div h),
         den |-> (r.den \div h) * (d0 \div g)]

\* r < k and r > k for a whole number k
Below(r, k) == r.num \div r.den < k
Above(r, k) ==
    \/ r.num \div r.den > k
    \/ r.num \div r.den = k /\ r.num % r.den # 0

maxIgnored(r, k) == r
max(r, k) == IF Below(r, k) THEN Whole(k) ELSE r

min(r, k) == IF Above(r, k) THEN Whole(k) ELSE r

\* AdaptiveRateLimiter.__init__, with the rate the limiter is at. History:
\* op, the last operation on the limiter; allowed, what should_allow returned.
AdaptiveRateLimiter(rate) ==
    [base_rate |-> BASE_RATE, current_rate |-> rate, success_count |-> 0,
     error_count |-> 0, last_adjustment |-> 0, op |-> "init", allowed |-> TRUE]

\* the rates the limiter has after no adjustment, after ten adjustments that
\* each reduced the rate, and after six that each raised it
ReachedRates ==
    {Whole(BASE_RATE), [num |-> 8388608, den |-> 78125],
     [num |-> 1771561, den |-> 1000]}

\* if now - self.last_adjustment > 10
AdjustmentDueAt(l, t) == t - l.last_adjustment >= ADJUST_INTERVAL
AdjustmentDue(l, t) == t - l.last_adjustment > ADJUST_INTERVAL

\* _adjust_rate
_adjust_rate(l) ==
    [l EXCEPT
       !.current_rate =
          IF l.error_count * 10 > l.success_count
          THEN max(Times(@, 8, 10), l.base_rate \div 10)
          ELSE IF l.error_count * 100 < l.success_count
               THEN min(Times(@, 11, 10), l.base_rate * 2)
               ELSE @,
       !.success_count = 0,
       !.error_count = 0]

\* should_allow called at time t, up to its return
Adjusted(l, t) ==
    IF AdjustmentDue(l, t)
    THEN [_adjust_rate(l) EXCEPT !.last_adjustment = t]
    ELSE l

\* random.random() < self.current_rate / self.base_rate, random() in [0, 1)
CanReturn(l, allow) == allow \/ Below(l.current_rate, l.base_rate)

should_allow(l, t, allow) ==
    [Adjusted(l, t) EXCEPT !.op = "should_allow", !.allowed = allow]

LimiterShouldAllow(allow) ==
    /\ sys = "limiter"
    /\ CanReturn(Adjusted(rl, now), allow)
    /\ rl' = should_allow(rl, now, allow)
    /\ UNCHANGED <<now, sys, loopVars, cb, prod, win, cep, det, src, agg, scoringVars>>

\* self.rate_limiter.success_count += len(events)
LimiterSuccess(n) ==
    /\ sys = "limiter"
    /\ rl.success_count + n <= MaxSuccessCount
    /\ rl' = [rl EXCEPT !.success_count = @ + n, !.op = "success"]
    /\ UNCHANGED <<now, sys, loopVars, cb, prod, win, cep, det, src, agg, scoringVars>>

\* self.rate_limiter.error_count += 1
LimiterError ==
    /\ sys = "limiter"
    /\ rl.error_count < MaxErrorCount
    /\ rl' = [rl EXCEPT !.error_count = @ + 1, !.op = "error"]
    /\ UNCHANGED <<now, sys, loopVars, cb, prod, win, cep, det, src, agg, scoringVars>>

LimiterTick ==
    /\ sys = "limiter"
    /\ now < MaxTicks * ClockStep
    /\ now' = now + ClockStep
    /\ UNCHANGED <<rl, sys, loopVars, cb, prod, win, cep, det, src, agg, scoringVars>>

----------------------------------------------------------------------------
(* AdvancedEventProducer.run: src/services/producer-advanced/producer.py *)

\* lengths of the batches the model generates
BatchLengths == {10, 100}

\* History of the run loop: failed_writes, the number of batch writes that
\* failed since the last one that succeeded; last, how the last cycle ended;
\* attempted, the number of batch writes attempted since the limiter's last
\* adjustment.
NewProducer == [failed_writes |-> 0, last |-> "none", attempted |-> 0]

\* One cycle of the while loop. produce_batch is a coroutine function: the
\* call func(*args, **kwargs) inside CircuitBreaker.call returns the coroutine
\* without running it, so call never sees func raise; the batch write runs
\* when run awaits what call returned, and its exception goes to run's except.
ProduceCycle(allow, n, write_fails) ==
    LET l == should_allow(rl, now, allow)
        b == CircuitBreakerCall(cb, now, FALSE)
        attempted == IF AdjustmentDue(rl, now) THEN 0 ELSE prod.attempted
    IN  /\ sys = "producer"
        /\ CanReturn(Adjusted(rl, now), allow)
        /\ IF ~allow
           THEN /\ rl' = l
                /\ prod' = [prod EXCEPT !.last = "dropped",
                                         !.attempted = attempted]
                /\ cb' = cb
           ELSE /\ cb' = b
                /\ IF ~b.invoked
                   THEN /\ l.error_count < MaxErrorCount
                        /\ rl' = [l EXCEPT !.error_count = @ + 1]
                        /\ prod' = [prod EXCEPT !.last = "rejected",
                                                 !.attempted = attempted]
                   ELSE IF write_fails
                   THEN /\ l.error_count < MaxErrorCount
                        /\ prod.failed_writes < MaxFailureCount
                        /\ rl' = [l EXCEPT !.error_count = @ + 1]
                        /\ prod' = [failed_writes |-> prod.failed_writes + 1,
                                    last |-> "failed",
                                    attempted |-> attempted + 1]
                   ELSE /\ l.success_count + n <= MaxSuccessCount
                        /\ rl' = [l EXCEPT !.success_count = @ + n]
                        /\ prod' = [failed_writes |-> 0, last |-> "written",
                                    attempted |-> attempted + 1]
        /\ UNCHANGED <<sys, now, loopVars, win, cep, det, src, agg, scoringVars>>

ProducerTick ==
    /\ sys = "producer"
    /\ now < MaxTicks * ClockStep
    /\ now' = now + ClockStep
    /\ UNCHANGED <<sys, cb, rl, prod, loopVars, win, cep, det, src, agg, scoringVars>>

----------------------------------------------------------------------------
(* SlidingWindow: src/services/processor-advanced/processor.py *)

MaxWindowEvents == 3      \* events added to the window

WINDOW_SIZE == 60         \* WINDOW_SIZE = int(os.getenv("WINDOW_SIZE", "60"))

EventTypes == {"page_view", "click", "purchase"}

\* an 'amount' property that float() cannot convert, such as "n/a"
NotANumber == 0 - 2

\* the events added to the window; amount None is an event without an
\* 'amount' property, user_id "" one without a user
WindowEvents ==
    {[event_type |-> "page_view", user_id |-> "u1", amount |-> None],
     [event_type |-> "purchase", user_id |-> "u2", amount |-> 20],
     [event_type |-> "purchase", user_id |-> "", amount |-> 5],
     [event_type |-> "purchase", user_id |-> "u1", amount |-> NotANumber]}

\* _update_aggregates over the entries (time, event) of the deque. The
\* defaultdicts are total functions here: a key never written reads as 0.
_update_aggregates(entries) ==
    LET RECURSIVE revenue(_, _)
        revenue(i, types) ==
            IF i = 0 THEN 0
            ELSE revenue(i - 1, types)
                 + (IF /\ entries[i].event.amount # None
                       /\ entries[i].event.event_type \in types
                    THEN entries[i].event.amount ELSE 0)
    IN  [counts |-> [ty \in EventTypes |->
                       Cardinality({i \in DOMAIN entries :
                                      entries[i].event.event_type = ty})],
         total |-> Len(entries),
         unique_users |-> Cardinality({entries[i].event.user_id :
                                         i \in DOMAIN entries} \ {""}),
         revenue_total |-> revenue(Len(entries), EventTypes),
         revenue |-> [ty \in EventTypes |-> revenue(Len(entries), {ty})]]

\* while self.events and self.events[0][0] < cutoff_time: popleft()
RECURSIVE Evict(_, _)
Evict(entries, cutoff_time) ==
    IF entries # <<>> /\ entries[1].time < cutoff_time
    THEN Evict(Tail(entries), cutoff_time)
    ELSE entries

\* SlidingWindow.__init__. History: added, every entry ever appended;
\* raised, whether the last add_event raised.
SlidingWindow ==
    [events |-> <<>>, aggregates |-> _update_aggregates(<<>>), added |-> <<>>,
     raised |-> FALSE]

\* add_event at time current_time: append, evict, _update_aggregates. When
\* float(event['properties']['amount']) raises at an entry (line 98), the
\* aggregates are what the loop had written up to that entry, its counts
\* included.
add_event(w, current_time, event) ==
    LET entry == [time |-> current_time, event |-> event]
        kept == Evict(Append(w.events, entry), current_time - WINDOW_SIZE)
        bad == {i \in DOMAIN kept : kept[i].event.amount = NotANumber}
        first == CHOOSE i \in bad : \A j \in bad : i <= j
        upto == [i \in 1 .. first |->
                   IF i = first
                   THEN [kept[i] EXCEPT !.event.amount = None]
                   ELSE kept[i]]
    IN  [events |-> kept,
         aggregates |-> _update_aggregates(IF bad = {} THEN kept ELSE upto),
         added |-> Append(w.added, entry),
         raised |-> bad # {}]

\* the aggregation stage adds an event; it reads aggregates right after
WindowAdd(event) ==
    /\ sys = "window"
    /\ Len(win.added) < MaxWindowEvents
    /\ win' = add_event(win, now, event)
    /\ UNCHANGED <<now, sys, loopVars, cb, rl, prod, cep, det, src, agg, scoringVars>>

\* time passes, half a window at a time
WindowTick ==
    /\ sys = "window"
    /\ now < MaxTicks * (WINDOW_SIZE \div 2)
    /\ now' = now + WINDOW_SIZE \div 2
    /\ UNCHANGED <<win, sys, loopVars, cb, rl, prod, cep, det, src, agg, scoringVars>>

----------------------------------------------------------------------------
(* ComplexEventProcessor: src/services/processor-advanced/processor.py *)

MaxBuffer == 4            \* events the session receives

BUFFER_SECONDS == 1800    \* cutoff_time = time.time() - 1800
FRAUD_SECONDS == 60       \* all(diff < 60 for diff in time_diffs)
DAY_SECONDS == 86400      \* time.time() - 86400

\* the millisecond timestamps events carry
Timestamps == {0, 59999, 60000, 119998}

\* the events of one user and session
SessionEvents == [event_type : EventTypes, timestamp : Timestamps]

\* An Optional[Dict] result is the empty set for None and otherwise the set
\* of the one dict returned (every dict the detectors return is truthy).

\* list.index: the position of the first occurrence
indexLast(list, x) ==
    CHOOSE i \in DOMAIN list :
        list[i] = x /\ \A j \in DOMAIN list : list[j] = x => j <= i
index(list, x) ==
    CHOOSE i \in DOMAIN list :
        list[i] = x /\ \A j \in DOMAIN list : list[j] = x => j >= i

_detect_purchase_funnel(events) ==
    LET event_types == [i \in DOMAIN events |-> events[i].event_type]
        present == {event_types[i] : i \in DOMAIN events}
    IN  IF {"page_view", "click", "purchase"} \subseteq present
        THEN LET view_idx == index(event_types, "page_view")
                 click_idx == index(event_types, "click")
                 purchase_idx == index(event_types, "purchase")
             IN  IF view_idx < click_idx /\ click_idx < purchase_idx
                 THEN {[funnel_completed |-> TRUE,
                        conversion_time |-> events[purchase_idx].timestamp
                                            - events[view_idx].timestamp,
                        steps |-> Cardinality(present)]}
                 ELSE {}
        ELSE {}

\* diff / 1000 < 60 is diff < 60000 for the integer timestamps; the mean of
\* the differences, avg_time_between, is left out of the result
_detect_fraud_pattern(events) ==
    LET purchases == SelectSeq(events, LAMBDA e : e.event_type = "purchase")
    IN  IF /\ Len(events) >= 3
           /\ Len(purchases) >= 3
           /\ \A i \in 2..Len(purchases) :
                 purchases[i].timestamp - purchases[i - 1].timestamp
                    < FRAUD_SECONDS * 1000
        THEN {[rapid_purchases |-> TRUE, purchase_count |-> Len(purchases)]}
        ELSE {}

\* older_rate is len(older_events) for up to ten older events
_detect_churn_risk(events, t) ==
    LET recent == SelectSeq(events,
                      LAMBDA e : e.timestamp > (t - DAY_SECONDS) * 1000)
        older == SelectSeq(events,
                      LAMBDA e : e.timestamp <= (t - DAY_SECONDS) * 1000)
    IN  IF Len(older) > 0 /\ 10 * Len(recent) < 3 * Len(older)
        THEN {[churn_risk |-> TRUE]}
        ELSE {}

\* ComplexEventProcessor.__init__, for the one key user_id:session_id the
\* model follows. History: detected, what the last process_event returned;
\* received, every event process_event was called with.
ComplexEventProcessor ==
    [buffer |-> <<>>,
     received |-> <<>>,
     detected |-> [purchase_funnel |-> {}, fraud_pattern |-> {},
                   churn_risk |-> {}]]

process_eventKeepsAll(c, t, event) ==
    LET all == Append(c.buffer, event)
    IN  [buffer |-> all,
         received |-> Append(c.received, event),
         detected |-> [purchase_funnel |-> _detect_purchase_funnel(all),
                       fraud_pattern |-> _detect_fraud_pattern(all),
                       churn_risk |-> _detect_churn_risk(all, t)]]

\* process_event at time t
process_event(c, t, event) ==
    LET kept == SelectSeq(Append(c.buffer, event),
                    LAMBDA e : e.timestamp > (t - BUFFER_SECONDS) * 1000)
    IN  [buffer |-> kept,
         received |-> Append(c.received, event),
         detected |-> [purchase_funnel |-> _detect_purchase_funnel(kept),
                       fraud_pattern |-> _detect_fraud_pattern(kept),
                       churn_risk |-> _detect_churn_risk(kept, t)]]

CepProcess(event) ==
    /\ sys = "cep"
    /\ Len(cep.received) < MaxBuffer
    /\ cep' = process_event(cep, now, event)
    /\ UNCHANGED <<now, sys, loopVars, cb, rl, prod, win, det, src, agg, scoringVars>>

\* time passes until events of the first minute are older than 30 minutes,
\* and then until every event is older than a day
CepTick ==
    /\ sys = "cep"
    /\ now < DAY_SECONDS
    /\ now' = IF now < BUFFER_SECONDS
              THEN now + BUFFER_SECONDS + FRAUD_SECONDS
              ELSE now + DAY_SECONDS
    /\ UNCHANGED <<cep, sys, loopVars, cb, rl, prod, win, det, src, agg, scoringVars>>

----------------------------------------------------------------------------
(* AdvancedAnomalyDetector: src/services/ml-detector/ml_detector.py *)

MaxTrainings == 2         \* training runs

\* Scores are floats in the source; here they are whole thousandths.

\* What analyze_event's result depends on: raw, the isolation forest's
\* decision_function value; user, whether the event has a user_id; recent,
\* the user's events of the last minute; amount, the purchase amount (0 for
\* no purchase); user_avg, the user's avg_purchase_amount; late, whether the
\* hour is before 6.
AnalyzeInputs ==
    [raw : {0 - 700, 0 - 201, 0 - 200, 600}, user : BOOLEAN,
     recent : {0, 35, 60}, amount : {0, 701, 2000},
     user_avg : {0 - 50, 50}, late : BOOLEAN]

\* AdvancedAnomalyDetector.__init__. scaler and isolation_forest hold the
\* number of the training run that fitted them last, 0 for unfitted.
\* History: runs, the training runs so far; used, the scaler and forest the
\* last get_ml_anomaly_score call computed with (0 when it used none);
\* result, what the last analyze_event returned.
AdvancedAnomalyDetector ==
    [is_trained |-> FALSE, model_version |-> 1, scaler |-> 0,
     isolation_forest |-> 0, runs |-> 0,
     used |-> [scaler |-> 0, isolation_forest |-> 0],
     result |-> [ml_anomaly_score |-> 0, behavioral_anomalies |-> {},
                 combined_anomaly_score |-> 0, is_anomaly |-> FALSE,
                 model_version |-> 1]]

\* train_model with at least 100 samples buffered. fit_transform and fit
\* update the scaler and the forest in place, one after the other; failed_at
\* names the call that raised: "array" (before either), "scaler" (the scaler
\* is left unfitted), "forest" (the forest is left as it was), or "none".
train_model(d, failed_at) ==
    LET run == d.runs + 1
    IN  CASE failed_at = "array" -> [d EXCEPT !.runs = run]
          [] failed_at = "scaler" -> [d EXCEPT !.runs = run, !.scaler = 0]
          [] failed_at = "forest" -> [d EXCEPT !.runs = run, !.scaler = run]
          [] OTHER -> [d EXCEPT !.runs = run, !.scaler = run,
                                !.isolation_forest = run,
                                !.is_trained = TRUE,
                                !.model_version = @ + 1]

\* max(0, min(1, (0.5 - score) / 1.0))
normalized_scoreRaw(score) == 500 - score
normalized_score(score) ==
    IF 500 - score < 0 THEN 0
    ELSE IF 500 - score > 1000 THEN 1000 ELSE 500 - score

\* get_ml_anomaly_score: the score and the scaler and forest it used. With
\* an unfitted scaler transform raises and the handler returns 0.0.
get_ml_anomaly_score(d, raw) ==
    IF ~d.is_trained \/ d.scaler = 0
    THEN [score |-> 0, used |-> [scaler |-> 0, isolation_forest |-> 0]]
    ELSE [score |-> normalized_score(raw),
          used |-> [scaler |-> d.scaler,
                    isolation_forest |-> d.isolation_forest]]

\* detect_behavioral_anomalies: the anomalies with their scores. analyze_event
\* has updated the baseline before, so a user_id is in user_baselines.
detect_behavioral_anomalies(in) ==
    LET capped(x) == IF x > 1000 THEN 1000 ELSE x
        ratio == IF in.user_avg > 0
                 THEN (in.amount * 100) \div in.user_avg
                 ELSE 0 - ((in.amount * 100) \div (0 - in.user_avg))
    IN  {[name |-> "rapid_fire", score |-> capped(in.recent * 20)] :
            x \in {1} \cap (IF in.user /\ in.recent > 20 THEN {1} ELSE {})}
        \cup
        {[name |-> "unusual_purchase", score |-> capped(ratio)] :
            x \in {1} \cap (IF in.amount # 0 /\ in.user
                               /\ in.amount > in.user_avg * 5
                            THEN {1} ELSE {})}
        \cup
        {[name |-> "high_value_purchase", score |-> capped(in.amount)] :
            x \in {1} \cap (IF in.amount # 0 /\ in.amount > 50 * 10
                            THEN {1} ELSE {})}
        \cup
        {[name |-> "unusual_time", score |-> 300] :
            x \in {1} \cap (IF in.late THEN {1} ELSE {})}

\* analyze_event
analyze_event(d, in) ==
    LET ml_score == get_ml_anomaly_score(d, in.raw)
        behavioral_anomalies == detect_behavioral_anomalies(in)
        scores == {a.score : a \in behavioral_anomalies} \cup {0}
        max_behavioral_score == CHOOSE x \in scores : \A y \in scores : y <= x
        combined_score == IF ml_score.score > max_behavioral_score
                          THEN ml_score.score ELSE max_behavioral_score
    IN  [d EXCEPT
           !.used = ml_score.used,
           !.result = [ml_anomaly_score |-> ml_score.score,
                       behavioral_anomalies |-> behavioral_anomalies,
                       combined_anomaly_score |-> combined_score,
                       is_anomaly |-> combined_score > ANOMALY_THRESHOLD * 100,
                       model_version |-> d.model_version]]

\* process_events retrains when a read returned nothing
DetTrain(failed_at) ==
    /\ sys = "detector"
    /\ det.runs < MaxTrainings
    /\ det' = train_model(det, failed_at)
    /\ UNCHANGED <<sys, now, loopVars, cb, rl, prod, win, cep, src, agg, scoringVars>>

DetAnalyze(in) ==
    /\ sys = "detector"
    /\ det' = analyze_event(det, in)
    /\ UNCHANGED <<sys, now, loopVars, cb, rl, prod, win, cep, src, agg, scoringVars>>

----------------------------------------------------------------------------
(* MLAnomalyDetector: src/services/processor-advanced/processor.py *)

MaxSamples == 1002        \* update_model calls

maxlen == 1000            \* deque(maxlen=1000)
MIN_SAMPLES == 100        \* len(self.feature_buffer) >= 100
RETRAIN_EVERY == 50       \* len(self.feature_buffer) % 50 == 0

\* MLAnomalyDetector.__init__. update_model reads only the length of
\* feature_buffer, which stands for the deque here. History: samples, the
\* update_model calls so far; retrained, whether the last call fitted the
\* model; last_fit, the value of samples at the last fit (0 for none).
MLAnomalyDetector ==
    [feature_buffer |-> 0, is_trained |-> FALSE, samples |-> 0,
     retrained |-> FALSE, last_fit |-> 0]

\* update_model: append to the ring (a full deque drops its oldest entry
\* and keeps its length), then fit when the length calls for it
update_model(m) ==
    LET len == IF m.feature_buffer < maxlen THEN m.feature_buffer + 1
               ELSE maxlen
        fit == len >= MIN_SAMPLES /\ len % RETRAIN_EVERY = 0
    IN  [feature_buffer |-> len,
         is_trained |-> m.is_trained \/ fit,
         samples |-> m.samples + 1,
         retrained |-> fit,
         last_fit |-> IF fit THEN m.samples + 1 ELSE m.last_fit]

\* process_event of the ml_inference stage calls update_model(event)
UpdateModel ==
    /\ sys = "scorer"
    /\ ml_detector.samples < MaxSamples
    /\ ml_detector' = update_model(ml_detector)
    /\ UNCHANGED <<sys, now, loopVars, cb, rl, prod, win, cep, det, src, agg,
                   user_baselines, svc>>


----------------------------------------------------------------------------
(* User baselines: src/services/ml-detector/ml_detector.py *)

MaxBaselineEvents == 4    \* events of the user that analyze_event receives

WEEK_SECONDS == 604800    \* 7 * 24 * 3600
DEFAULT_AVG == 25         \* ... if baseline['purchases'] else 25.0
HalfWeek == 345600        \* four days, the step of the clock

\* the events of one user: the properties update_user_baseline and the
\* unusual-purchase rule read; amount 0 stands for no amount
BaselineEvents ==
    {e \in [event_type : {"page_view", "purchase"}, session_id : {"s1", "s2"},
            amount : {0, 10, 60}] :
        (e.event_type = "page_view") = (e.amount = 0)}

\* user_baselines[user_id] as update_user_baseline creates it. Averages are
\* floats in the source and exact fractions sum/count here. History:
\* received, every event of the user with its timestamp; unusual_purchase,
\* whether detect_behavioral_anomalies reported it for the last event.
NewBaseline ==
    [events |-> <<>>, sessions |-> {}, purchases |-> <<>>, last_seen |-> 0,
     avg_session_events |-> [num |-> 0, den |-> 1],
     avg_purchase_amount |-> [num |-> DEFAULT_AVG, den |-> 1],
     sessions_count |-> 0,
     received |-> <<>>, unusual_purchase |-> FALSE]

\* update_user_baseline at time t, for an event that has a user_id
update_user_baseline(b, t, event) ==
    LET RECURSIVE sum(_)
        sum(q) == IF q = <<>> THEN 0 ELSE Head(q) + sum(Tail(q))
        events == Append(b.events, event)
        sessions == b.sessions \cup {event.session_id}
        purchases == IF event.event_type = "purchase" /\ event.amount # 0
                     THEN Append(b.purchases, event.amount)
                     ELSE b.purchases
        cutoff_time == t - WEEK_SECONDS
    IN  [b EXCEPT
           !.events = SelectSeq(events,
                          LAMBDA e : e.timestamp > cutoff_time * 1000),
           !.last_seen = t,
           !.sessions = sessions,
           !.purchases = purchases,
           !.avg_session_events =
               [num |-> Len(events),
                den |-> IF sessions = {} THEN 1 ELSE Cardinality(sessions)],
           !.avg_purchase_amount =
               IF purchases # <<>>
               THEN [num |-> sum(purchases), den |-> Len(purchases)]
               ELSE [num |-> DEFAULT_AVG, den |-> 1],
           !.sessions_count = Cardinality(sessions),
           !.received = Append(b.received, event)]

\* analyze_event for an event produced at the current time: the baseline is
\* updated first, then detect_behavioral_anomalies compares a purchase's
\* amount with the baseline's avg_purchase_amount (amount > user_avg * 5)
AnalyzeUserEvent(e) ==
    /\ sys = "baseline"
    /\ Len(user_baselines.received) < MaxBaselineEvents
    /\ LET event == [event_type |-> e.event_type, session_id |-> e.session_id,
                     amount |-> e.amount, timestamp |-> now * 1000]
           b == update_user_baseline(user_baselines, now, event)
           user_avg == b.avg_purchase_amount
       IN  user_baselines' =
             [b EXCEPT !.unusual_purchase =
                 /\ event.event_type = "purchase"
                 /\ event.amount # 0
                 /\ event.amount * user_avg.den > user_avg.num * 5]
    /\ UNCHANGED <<sys, now, loopVars, cb, rl, prod, win, cep, det, src, agg,
                   ml_detector, svc>>

BaselineTick ==
    /\ sys = "baseline"
    /\ now < 2 * HalfWeek
    /\ now' = now + HalfWeek
    /\ UNCHANGED <<sys, loopVars, cb, rl, prod, win, cep, det, src, agg,
                   scoringVars>>

----------------------------------------------------------------------------
(* MLDetectorService.process_events and the training of the model:        *)
(* src/services/ml-detector/ml_detector.py                                 *)

BUFFER_MAXLEN == 10000    \* self.feature_buffer = deque(maxlen=10000)
TRAIN_MIN == 100          \* len(self.detector.feature_buffer) >= 100

\* One pass of the while loop, the xreadgroup having returned n messages
\* within its block of 5 s. With none, train_model runs when the buffer has
\* at least 100 samples (fitting them does not raise); otherwise
\* analyze_event appends one sample per message and scores it with
\* get_ml_anomaly_score. svc.feature_buffer is the deque's length and
\* svc.next the slot of the ring the next sample goes to; model_version,
\* which only the analysis results carry, is left out. History: ml_score,
\* "zero" when the last messages were scored 0.0 for want of a model,
\* "model" when the model scored them.
ProcessEvents(n) ==
    /\ sys = "service"
    /\ IF n = 0
       THEN svc' = [svc EXCEPT
                      !.is_trained = @ \/ svc.feature_buffer >= TRAIN_MIN]
       ELSE svc' = [svc EXCEPT
                      !.feature_buffer = Min(@ + n, BUFFER_MAXLEN),
                      !.next = (@ + n) % BUFFER_MAXLEN,
                      !.ml_score = IF svc.is_trained THEN "model" ELSE "zero"]
    /\ UNCHANGED <<sys, now, loopVars, cb, rl, prod, win, cep, det, src, agg,
                   ml_detector, user_baselines>>

----------------------------------------------------------------------------
(* Basic producer: src/producer/producer.py *)

MaxEventIndex == 12       \* the largest i make_event is called with

\* A Python value is a record with its type in py: a str with its text, the
\* sequence of its characters (one word for the names drawn from a list), or
\* None. A dict is a function from its keys.

\* What make_event draws: user_id and session_id from random.randint,
\* event_type and product from random.choice, keep_product for
\* random.random() > 0.3, value for round(random.random() * 100, 2) in
\* hundredths.
EventChoices ==
    [user_id : {1, 10000}, session_id : {1000},
     event_type : {"click", "view", "purchase", "signup", "logout", "search"},
     product : {"laptop", "camera"}, keep_product : BOOLEAN,
     value : {5, 4210, 10000}]

\* {k: v for k, v in ev.items() if v is not None}
WithNone(ev) == ev
WithoutNone(ev) ==
    [k \in {k \in DOMAIN ev : ev[k].py # "None"} |-> ev[k]]

\* make_event(i) at the time now, with the random draws c
make_event(i, c) ==
    LET digit(d) == <<"0", "1", "2", "3", "4", "5", "6", "7", "8", "9">>[d + 1]
        RECURSIVE decimal(_)
        decimal(n) == IF n < 10 THEN <<digit(n)>>
                      ELSE decimal(n \div 10) \o <<digit(n % 10)>>
        \* str of an int, and of a float with at most two decimals
        str(n) == [py |-> "str", text |-> decimal(n)]
        strFloat(h) ==
            [py |-> "str",
             text |-> decimal(h \div 100) \o <<".">> \o
                      (IF h % 10 = 0 THEN <<digit((h % 100) \div 10)>>
                       ELSE <<digit((h % 100) \div 10), digit(h % 10)>>)]
        ts == now * 1000
    IN  WithoutNone(
          [k \in {"event_id", "user_id", "event_type", "product", "value",
                  "session_id", "ts"} |->
             CASE k = "event_id" -> str(i)
               [] k = "user_id" -> str(c.user_id)
               [] k = "event_type" -> [py |-> "str", text |-> c.event_type]
               [] k = "product" -> IF c.keep_product
                                   THEN [py |-> "str", text |-> c.product]
                                   ELSE [py |-> "None"]
               [] k = "value" -> strFloat(c.value)
               [] k = "session_id" -> str(c.session_id)
               [] OTHER -> str(ts)])

\* a call make_event(src.i)
MakeEvent(c) ==
    /\ sys = "make_event"
    /\ src' = [src EXCEPT !.ev = make_event(src.i, c)]
    /\ UNCHANGED <<sys, now, loopVars, cb, rl, prod, win, cep, det, agg, scoringVars>>

----------------------------------------------------------------------------
(* update_aggregates: src/processor/processor.py *)

MaxUpdates == 3           \* update_aggregates calls

\* the messages: a field that is absent or empty is ""
AggMessages ==
    [event_type : {"click", ""}, session_id : {"7", ""},
     product : {"laptop", ""}]

\* The hash at AGG_KEY, with the one key per kind that the messages give:
\* type:click:count, session:7:events, product:laptop:count, total_count
\* and last_updated. History: calls, the update_aggregates calls so far;
\* last, the hash before the last call, its message and whether it raised.
Aggregates ==
    LET hash == [type |-> 0, session |-> 0, product |-> 0, total_count |-> 0,
                 last_updated |-> 0]
    IN  [hash |-> hash, calls |-> 0,
         last |-> [before |-> hash, msg |-> [event_type |-> "",
                   session_id |-> "", product |-> ""], raised |-> FALSE]]

\* update_aggregates(msg) at time t on the hash h. Its calls in order: the
\* float conversion of ts, then hincrby for the type, the session and the
\* product when the message has them, hincrby total_count, hset
\* last_updated. failed_at names the call that raises, "none" for none; a
\* call the message does not lead to cannot raise.
update_aggregates(h, msg, failed_at, t) ==
    LET order == <<"ts", "type", "session", "product", "total_count",
                   "last_updated">>
        made(call) == CASE call = "type" -> msg.event_type # ""
                         [] call = "session" -> msg.session_id # ""
                         [] call = "product" -> msg.product # ""
                         [] OTHER -> TRUE
        at(call) == CHOOSE j \in DOMAIN order : order[j] = call
        raises == failed_at # "none" /\ made(failed_at)
        done(call) == made(call) /\ (raises => at(call) < at(failed_at))
    IN  [hash |->
           [k \in DOMAIN h |->
              IF ~done(k) THEN h[k]
              ELSE IF k = "last_updated" THEN t ELSE h[k] + 1],
         raised |-> raises]

\* process_message calls update_aggregates(msg)
UpdateAggregates(msg, failed_at) ==
    /\ sys = "aggregates"
    /\ agg.calls < MaxUpdates
    /\ LET u == update_aggregates(agg.hash, msg, failed_at, now)
       IN  agg' = [hash |-> u.hash, calls |-> agg.calls + 1,
                   last |-> [before |-> agg.hash, msg |-> msg,
                             raised |-> u.raised]]
    /\ UNCHANGED <<sys, now, loopVars, cb, rl, prod, win, cep, det, src,
                   scoringVars>>

----------------------------------------------------------------------------
(* The stream keys of the advanced producer and the stage processor *)

MaxProduced == 3          \* events the advanced producer appends

\* INPUT_STREAM = os.getenv("INPUT_STREAM", "events:*"): the default
INPUT_STREAM == "events:*"

\* produce_batch: stream_key = f"events:{event.event_type}"
stream_key(event_type) == "events:" \o event_type

\* produce_batch appends an event of one of the generators' types to its
\* stream: pipeline.xadd(stream_key, {"data": event_data}). Here `stream`
\* holds the entries of every key, each with the key it is stored at.
ProduceBatch(event_type) ==
    /\ sys = "keys"
    /\ Len(stream) < MaxProduced
    /\ stream' = Append(stream,
                  NewEntry([stream_key |-> stream_key(event_type)]))
    /\ UNCHANGED <<sys, unitVars, cons, faults, advVars, mlVars, histVars>>

\* run: xreadgroup(CONSUMER_GROUP, consumer, {INPUT_STREAM: '>'}) delivers
\* the entries stored at the key INPUT_STREAM that were never delivered; a
\* key is a name, and no pattern
StageRead ==
    /\ sys = "keys"
    /\ stream' = Delivered(SelectSeq(XReadGroupIds(BATCH_SIZE),
                     LAMBDA id : Entry(id).data.stream_key = INPUT_STREAM))
    /\ UNCHANGED <<sys, unitVars, cons, faults, advVars, mlVars, histVars>>

----------------------------------------------------------------------------
(* Specifications *)

InitLocal ==
    /\ faults = [store |-> MaxFaults, stage |-> MaxFaults, output |-> MaxFaults]
    /\ adv = NoAdv
    /\ out = <<>>
    /\ idem = [before |-> {}, last |-> <<>>]
    /\ completed = {}
    /\ tries = <<>>
    /\ raised = {}
    /\ ml = NoMl
    /\ anomalies = {}
    /\ alerts = <<>>
    /\ storeFailed = {}
    /\ now = 0
    /\ cb = NewBreaker
    /\ prod = NewProducer
    /\ win = SlidingWindow
    /\ cep = ComplexEventProcessor
    /\ det = AdvancedAnomalyDetector
    /\ agg = Aggregates
    /\ ml_detector = MLAnomalyDetector
    /\ user_baselines = NewBaseline
    /\ svc = [feature_buffer |-> 0, next |-> 0, is_trained |-> FALSE,
              ml_score |-> "zero"]

InitEmpty ==
    /\ stream = <<>>
    /\ cons = [c \in Consumers |-> IdleConsumer]
    /\ InitLocal

InitCommon ==
    /\ InitEmpty
    /\ rl = AdaptiveRateLimiter(Whole(BASE_RATE))
    /\ src = [i |-> 0, ev |-> <<>>]

\* the program or component `name` after construction
InitOf(name) == sys = name /\ InitCommon

\* The pending list a consumer leaves that read n messages in two batches
\* (the first k of them a ms ago, the others b ms ago) and terminated
\* without acknowledging any.
Backlog(n, k, a, b) ==
    [i \in 1 .. n |->
        [data |-> BasicEvent, st |-> "pending",
         idle |-> IF i <= k THEN a ELSE b, orphan |-> TRUE,
         counted |-> 0, missed |-> FALSE]]

\* the basic processor "proc-1" starting while the group's pending list
\* holds what the terminated "proc-2" left
InitRecovery ==
    /\ sys = "basic"
    /\ \E n \in 0 .. MaxBacklog, k \in 0 .. MaxBacklog,
          a \in {0, TickMs, IdleCapMs}, b \in {0, TickMs, IdleCapMs} :
          /\ k <= n
          /\ b <= a
          /\ stream = Backlog(n, k, a, b)
    /\ cons = [c \in Consumers |->
                 IF c = "proc-1" THEN IdleConsumer
                 ELSE [IdleConsumer EXCEPT !.alive = FALSE]]
    /\ InitLocal
    /\ rl = AdaptiveRateLimiter(Whole(BASE_RATE))
    /\ src = [i |-> 0, ev |-> <<>>]

\* the steps of the producer, of the running consumers and of time
NextRunning ==
    \/ ProducerXAdd
    \/ \E c \in Consumers : Poll(c)
    \/ \E c \in Consumers, result \in {"True", "False"} :
          ProcessMessageReturns(c, result)
    \/ \E c \in Consumers : Ack(c)
    \/ \E c \in Consumers : RecoverClaim(c)
    \/ \E c \in Consumers, result \in {"True", "False"} :
          RecoverProcessReturns(c, result)
    \/ \E c \in Consumers : RecoverAck(c)
    \/ Tick

NextBasic ==
    \/ NextRunning
    \/ \E c \in Consumers : Crash(c)

NextAdv ==
    \/ \E data \in Events \cup {Malformed} : AdvProducerXAdd(data)
    \/ AdvRead
    \/ AdvHandleMessage
    \/ AdvWriteOutput
    \/ AdvAck

NextMl ==
    \/ \E data \in ProcessedData \cup {Malformed} : ProcessedXAdd(data)
    \/ MlRead
    \/ MlHandleMessage
    \/ MlAck

\* the basic processor with two consumers of one group
SpecBasic == InitOf("basic") /\ [][NextBasic]_vars

\* the basic processor recovering the pending list of a terminated consumer
SpecRecovery == InitRecovery /\ [][NextRunning]_vars

\* the advanced stage processor
SpecAdv == InitOf("adv") /\ [][NextAdv]_vars

\* the ML detector
SpecMl == InitOf("ml") /\ [][NextMl]_vars

\* CircuitBreaker.call with functions that return or raise, as time passes
SpecBreaker ==
    /\ InitOf("breaker")
    /\ [][\/ \E func_raises \in BOOLEAN : BreakerCall(func_raises)
         \/ BreakerTick]_vars

InitLimiter ==
    /\ sys = "limiter"
    /\ InitEmpty
    /\ \E rate \in ReachedRates : rl = AdaptiveRateLimiter(rate)
    /\ src = [i |-> 0, ev |-> <<>>]

\* the rate limiter as the run loop uses it, as time passes
SpecLimiter ==
    /\ InitLimiter
    /\ [][\/ \E allow \in BOOLEAN : LimiterShouldAllow(allow)
         \/ \E n \in BatchLengths : LimiterSuccess(n)
         \/ LimiterError
         \/ LimiterTick]_vars

\* the advanced producer's run loop
SpecProducer ==
    /\ InitOf("producer")
    /\ [][\/ \E allow \in BOOLEAN, n \in BatchLengths, write_fails \in BOOLEAN :
               ProduceCycle(allow, n, write_fails)
         \/ ProducerTick]_vars

\* the sliding window of the aggregation stage, as time passes
SpecWindow ==
    /\ InitOf("window")
    /\ [][\/ \E event \in WindowEvents : WindowAdd(event)
         \/ WindowTick]_vars

\* the pattern detection over one session's events, as time passes
SpecCep ==
    /\ InitOf("cep")
    /\ [][\/ \E event \in SessionEvents : CepProcess(event)
         \/ CepTick]_vars

\* the anomaly detector's training and scoring
SpecDetector ==
    /\ InitOf("detector")
    /\ [][\/ \E failed_at \in {"array", "scaler", "forest", "none"} :
               DetTrain(failed_at)
          \/ \E in \in AnalyzeInputs : DetAnalyze(in)]_vars

InitMakeEvent ==
    /\ sys = "make_event"
    /\ InitEmpty
    /\ rl = AdaptiveRateLimiter(Whole(BASE_RATE))
    /\ \E i \in 0..MaxEventIndex : src = [i |-> i, ev |-> <<>>]

\* the learned scorer of the ml_inference stage, as events arrive
SpecScorer == InitOf("scorer") /\ [][UpdateModel]_vars

\* the detector's baseline of one user, as the user's events arrive
SpecBaseline ==
    /\ InitOf("baseline")
    /\ [][\/ \E e \in BaselineEvents : AnalyzeUserEvent(e)
          \/ BaselineTick]_vars

\* make_event called with each i
SpecMakeEvent ==
    InitMakeEvent /\ [][\E c \in EventChoices : MakeEvent(c)]_vars

\* update_aggregates called for one message after the other
SpecAggregates ==
    InitOf("aggregates")
    /\ [][\E msg \in AggMessages,
             failed_at \in {"none", "ts", "type", "session", "product",
                            "total_count", "last_updated"} :
             UpdateAggregates(msg, failed_at)]_vars

\* the two consumer loops that acknowledge after processing
SpecLoops == (InitOf("basic") \/ InitOf("adv")) /\ [][NextBasic \/ NextAdv]_vars

\* Every loop is a `while True` of a running process and time passes: each
\* step of a loop that is enabled is eventually taken, and a consumer that
\* processes messages again and again is eventually successful. Nothing
\* obliges the producer to append, a fault to occur or a consumer to
\* terminate.
FairBasic ==
    /\ SpecBasic
    /\ WF_vars(Tick)
    /\ \A c \in Consumers :
          /\ WF_vars(Poll(c))
          /\ SF_vars(ProcessMessageReturns(c, "True"))
          /\ WF_vars(Ack(c))
          /\ WF_vars(RecoverClaim(c))
          /\ SF_vars(RecoverProcessReturns(c, "True"))
          /\ WF_vars(RecoverAck(c))

\* the one processor of the chaos test starting on an empty pending list
InitRestart == InitRecovery /\ stream = <<>>

\* The one basic processor "proc-1" of the chaos test, stopped and started
\* again any number of times. While it runs, its loop reads, processes and
\* acknowledges. Nothing obliges the processor to be stopped or, once
\* stopped, to be started. It is not stopped again while a message it
\* missed is on the stream.
FairRestart ==
    /\ InitRestart
    /\ [][\/ NextRunning
          \/ (\A k \in DOMAIN stream : ~stream[k].missed) /\ Stop("proc-1")
          \/ Restart("proc-1")]_vars
    /\ WF_vars(Poll("proc-1"))
    /\ WF_vars(ProcessMessageReturns("proc-1", "True"))
    /\ WF_vars(Ack("proc-1"))

\* the advanced producer appending and a stage processor reading in its
\* `while True` loop
FairKeys ==
    /\ InitOf("keys")
    /\ [][\/ \E event_type \in {"page_view", "click", "scroll", "hover",
                                  "purchase"} : ProduceBatch(event_type)
          \/ StageRead]_vars
    /\ WF_vars(StageRead)

\* the detector's loop runs for ever, whatever the reads return
FairService ==
    /\ InitOf("service")
    /\ [][\E n \in {0, 1, ML_READ_COUNT} : ProcessEvents(n)]_vars
    /\ WF_vars(\E n \in {0, 1, ML_READ_COUNT} : ProcessEvents(n))

FairPipeline ==
    /\ (InitOf("adv") \/ InitOf("ml"))
    /\ [][NextAdv \/ NextMl]_vars
    /\ WF_vars(AdvRead)
    /\ WF_vars(AdvHandleMessage)
    /\ WF_vars(AdvWriteOutput)
    /\ WF_vars(AdvAck)
    /\ WF_vars(MlRead)
    /\ WF_vars(MlHandleMessage)
    /\ WF_vars(MlAck)

----------------------------------------------------------------------------
(* Claims *)

\* C1: the idempotency check lets a call through exactly when no earlier
\* call of the instance had the same (event_id, user_id, timestamp, stage)
\* tuple: the first call with a tuple passes, later ones are rejected, and
\* no call is rejected because of a different tuple.
C1_OncePerTuple ==
    \A k \in DOMAIN idem.last :
        idem.last[k].passed <=> idem.last[k].ev \notin idem.before

\* two well-formed payloads on the stream whose idempotency keys collide
KeysCollide(e) ==
    \E k \in DOMAIN stream :
        /\ ~ParseFails(stream[k].data)
        /\ stream[k].data # e
        /\ generate_idempotency_key(stream[k].data) = generate_idempotency_key(e)

\* C2: a message of the advanced stage processor is acknowledged only if
\* the stage processing of its event has completed without error, in this
\* or an earlier delivery of the same tuple (events whose key collides with
\* another event's are left aside: they are C1's).
C2_AckedOnlyIfProcessed ==
    \A k \in DOMAIN stream :
        (/\ sys = "adv"
         /\ stream[k].st = "acked"
         /\ ~ParseFails(stream[k].data)
         /\ ~KeysCollide(stream[k].data))
        => stream[k].data \in completed

\* the message a basic consumer in local state l is dealing with
Current(l) ==
    IF l.pc \in {"process", "ack"} THEN Head(l.batch)
    ELSE Head(l.plist).message_id

\* the entries of the pending list, in id order, without the history of
\* what update_aggregates did for them
PendingEntries ==
    SelectSeq([k \in DOMAIN stream |-> [stream[k] EXCEPT !.counted = 0]],
              IsPending)

\* the entries of the pending list but the one with this id
PendingExcept(id) ==
    LET ids == IdSeq(PendingIds \ {id}, Len(stream))
    IN [i \in DOMAIN ids |-> [stream[ids[i]] EXCEPT !.counted = 0]]

\* consumer c takes this step
Steps(c) ==
    \/ cons'[c].pc # cons[c].pc
    \/ Len(cons'[c].batch) # Len(cons[c].batch)
    \/ Len(cons'[c].plist) # Len(cons[c].plist)

\* C3: in both consumer loops a message leaves the pending list (is
\* acknowledged) only in a step of a loop for which the processing of that
\* message returned without error in the cycle under way; a step in which
\* the processing raises or returns failure leaves the pending list as it
\* is, and the advanced loop never holds a failed message in ack_ids.
C3_AckOnlyAfterSuccess ==
    [][/\ (sys = "basic" /\ Len(PendingEntries') < Len(PendingEntries)) =>
            \E c \in Consumers :
               /\ cons[c].pc \in {"ack", "rack"}
               /\ Steps(c)
               /\ cons[c].result = "True"
               /\ PendingEntries' = PendingExcept(Current(cons[c]))
       /\ \A c \in Consumers :
            (/\ sys = "basic"
             /\ cons[c].pc \in {"process", "rprocess"}
             /\ Steps(c)
             /\ cons'[c].alive
             /\ cons'[c].pc \notin {"ack", "rack"})
            => PendingEntries' = PendingEntries
       /\ sys = "adv" =>
            /\ \A id \in PendingIds \ PendingIds' :
                  /\ adv.pc = "ack"
                  /\ id \in adv.returned
                  /\ id \notin adv.failed
            /\ adv'.failed \cap Range(adv'.ack_ids) = {}
            /\ (adv'.failed \ adv.failed # {} => PendingIds' = PendingIds)
      ]_vars

\* a cycle of the advanced loop has ended in which one message was
\* acknowledged and another, whose processing raised, was left pending
C3_Witness ==
    /\ sys = "adv"
    /\ adv.pc = "read"
    /\ AckedIds # {}
    /\ \E id \in raised : id \in PendingIds /\ id \in adv.failed

\* C4: every well-formed event the advanced stage processor has read
\* eventually has a ProcessedEvent on the output stream.
C4_EventuallyOutput ==
    \A e \in Events :
        (\E k \in DOMAIN stream : stream[k].data = e /\ stream[k].st # "new")
        ~> (\E j \in DOMAIN out : out[j].original_event = e)

\* C5: a message of the advanced stage processor or of the ML detector
\* that was left unacknowledged because its processing raised is later
\* delivered and handled again.
C5_Redelivered ==
    \A id \in 1 .. MaxPipeStream :
        (id \in raised /\ id \in PendingIds)
        ~> (id \in DOMAIN tries /\ tries[id] >= 2)

\* C6: a recovery pass takes up every entry that is pending with an idle
\* time above 30,000 ms when the poll returned no new message, however many
\* are pending; it claims and reprocesses each entry it took up that is
\* still pending and idle when its turn comes, and claims no entry whose
\* listed idle time is 30,000 ms or less.
C6_ClaimsEveryStale ==
    [][\A c \in Consumers :
          /\ (cons[c].pc = "poll" /\ cons'[c].pc = "recover") =>
                \A id \in PendingIds :
                   Entry(id).idle > IDLE_THRESHOLD =>
                      \E i \in DOMAIN cons'[c].plist :
                         cons'[c].plist[i].message_id = id
          /\ (cons[c].pc = "recover" /\ Steps(c) /\ cons'[c].alive) =>
                LET p == Head(cons[c].plist)
                IN IF p.time_since_delivered > IDLE_THRESHOLD
                   THEN (/\ p.message_id \in PendingIds
                         /\ Entry(p.message_id).idle >= MIN_IDLE_TIME)
                        => cons'[c].pc = "rprocess"
                   ELSE cons'[c].pc # "rprocess"
      ]_vars

\* C7: an acknowledged message never returns to the pending list (in a step
\* that forgets no entry the positions are the ids), no listing of a
\* recovery pass contains it and no xclaim returns it.
C7_AckedNeverReclaimed ==
    [][/\ Len(stream') >= Len(stream) =>
            \A id \in AckedIds : id \notin PendingIds'
       /\ \A c \in Consumers :
            /\ (cons[c].pc = "poll" /\ cons'[c].pc = "recover")
                 => \A k \in DOMAIN cons'[c].plist :
                       cons'[c].plist[k].message_id \notin AckedIds
            /\ (cons[c].pc = "recover" /\ cons'[c].pc = "rprocess")
                 => Head(cons[c].plist).message_id \notin AckedIds
      ]_vars

\* a recovery pass is about to examine an entry that was acknowledged after
\* the pass listed it, with an idle time above the threshold
C7_Witness ==
    \E c \in Consumers :
        /\ cons[c].pc = "recover"
        /\ Head(cons[c].plist).message_id \in AckedIds
        /\ ShouldClaim(Head(cons[c].plist))

OrphanPending ==
    \E k \in DOMAIN stream : stream[k].orphan /\ IsPending(stream[k])

\* C8: a message that a consumer had read and not acknowledged when it
\* terminated is eventually acknowledged (after a live consumer claimed and
\* processed it).
C8_OrphanEventuallyAcked == OrphanPending ~> ~OrphanPending

\* C9: a message whose payload cannot be parsed is acknowledged anyway: once
\* the cycle that handled it has ended (no output write having failed) it is
\* not in the pending list.
C9_PoisonAcknowledged ==
    (sys = "adv" /\ adv.pc = "read" /\ faults.output = MaxFaults)
    => \A k \in DOMAIN stream :
          ParseFails(stream[k].data) => ~IsPending(stream[k])

\* C10: a message during whose handling a write to the external store
\* failed is not acknowledged.
C10_NoAckAfterStoreFailure ==
    \A id \in storeFailed : id \notin AckedIds

\* C11: after n calls through the breaker that all failed, made from state
\* closed with failure_count 0, the breaker is closed with failure_count n
\* when n is below failure_threshold, and open with last_failure_time
\* recorded when n is failure_threshold; and a breaker whose failure_count
\* is below failure_threshold is closed.
C11_TripsAtThreshold ==
    sys = "breaker" =>
       /\ (cb.run # None /\ cb.run < FAILURE_THRESHOLD) =>
             cb.state = "closed" /\ cb.failure_count = cb.run
       /\ cb.run = FAILURE_THRESHOLD =>
             /\ cb.state = "open"
             /\ cb.last_failure_time # None
             /\ cb.last_failure_time <= now
       /\ cb.failure_count < FAILURE_THRESHOLD => cb.state = "closed"

\* failure_threshold calls in a row have failed and the breaker is open
C11_Witness ==
    sys = "breaker" /\ cb.run = FAILURE_THRESHOLD /\ cb.state = "open"

\* C12: a call made while the breaker is open and no more than timeout
\* seconds after last_failure_time raises the breaker's own exception
\* without invoking the wrapped function and leaves the breaker open; a
\* call made while it is open and more than timeout seconds after
\* last_failure_time invokes the wrapped function, as a half-open probe.
C12_OpenRejectsUntilTimeout ==
    [][(sys = "breaker" /\ now' = now /\ cb.state = "open") =>
          IF now - cb.last_failure_time <= TIMEOUT
          THEN /\ ~cb'.invoked
               /\ cb'.outcome = "open"
               /\ cb'.state = "open"
               /\ cb'.failure_count = cb.failure_count
               /\ cb'.last_failure_time = cb.last_failure_time
          ELSE cb'.invoked /\ cb'.probe
      ]_vars

\* a call was rejected exactly timeout seconds after the last failure
C12_Witness ==
    /\ sys = "breaker"
    /\ cb.state = "open"
    /\ cb.outcome = "open"
    /\ now - cb.last_failure_time = TIMEOUT

\* C13: a half-open probe (a call made while the breaker is open, more
\* than timeout seconds after last_failure_time) that succeeds leaves the
\* breaker closed with failure_count 0; one that fails leaves it open with
\* last_failure_time the time of the probe, so that the next call that
\* invokes the function is more than timeout seconds later; no call leaves
\* the breaker half-open.
C13_ProbeClosesOrReopens ==
    [][(sys = "breaker" /\ now' = now) =>
          /\ (cb.state = "open" /\ now - cb.last_failure_time > TIMEOUT) =>
                /\ cb'.probe
                /\ cb'.outcome = "returned" =>
                      cb'.state = "closed" /\ cb'.failure_count = 0
                /\ cb'.outcome = "raised" =>
                      /\ cb'.state = "open"
                      /\ cb'.last_failure_time = now
                      /\ ~TimeoutElapsed(cb', now + TIMEOUT)
                /\ cb'.outcome # "open"
          /\ cb'.state # "half-open"
      ]_vars

\* a probe has failed and the breaker is open again
C13_Witness ==
    sys = "breaker" /\ cb.probe /\ cb.outcome = "raised" /\ cb.state = "open"

\* C14: in the producer loop every batch write that fails is recorded by the
\* circuit breaker as a call failure, so that failure_threshold consecutive
\* failed batch writes leave the breaker open.
C14_FailedWritesOpenBreaker ==
    sys = "producer" =>
        /\ prod.last = "failed" => cb.outcome = "raised"
        /\ prod.failed_writes >= FAILURE_THRESHOLD => cb.state = "open"

\* C15: a should_allow call more than 10 s after the previous adjustment
\* resets success_count and error_count to 0 and sets current_rate: with more
\* than 10 errors per 100 successes to 0.8 times the rate but not below a
\* tenth of base_rate, with fewer than 1 error per 100 successes to 1.1 times
\* the rate but not above twice base_rate, and otherwise to the same rate. A
\* call no more than 10 s after the previous adjustment changes none of them.
C15_RateAdjustment ==
    [][(sys = "limiter" /\ now' = now /\ rl'.op = "should_allow") =>
        LET e == rl.error_count
            s == rl.success_count
            r == rl.current_rate
            reduced == Times(r, 4, 5)
            raised_ == Times(r, 11, 10)
            lowest == rl.base_rate \div 10
            highest == 2 * rl.base_rate
        IN  IF now - rl.last_adjustment > 10
            THEN /\ rl'.success_count = 0
                 /\ rl'.error_count = 0
                 /\ rl'.last_adjustment = now
                 /\ 100 * e > 10 * s =>
                      rl'.current_rate =
                        IF Below(reduced, lowest) THEN Whole(lowest) ELSE reduced
                 /\ 100 * e < 1 * s =>
                      rl'.current_rate =
                        IF Above(raised_, highest) THEN Whole(highest) ELSE raised_
                 /\ (100 * e <= 10 * s /\ 100 * e >= 1 * s) =>
                      rl'.current_rate = r
            ELSE /\ rl'.success_count = s
                 /\ rl'.error_count = e
                 /\ rl'.last_adjustment = rl.last_adjustment
                 /\ rl'.current_rate = r]_vars

\* an adjustment has just reduced the rate to the floor, a tenth of base_rate
C15_Witness ==
    /\ sys = "limiter"
    /\ rl.op = "should_allow"
    /\ now > 0
    /\ rl.last_adjustment = now
    /\ rl.current_rate = Whole(BASE_RATE \div 10)

\* C16: after any sequence of should_allow calls and count updates,
\* current_rate is at least a tenth of base_rate and at most twice base_rate.
C16_RateWithinBounds ==
    sys = "limiter" =>
        /\ ~Below(rl.current_rate, rl.base_rate \div 10)
        /\ ~Above(rl.current_rate, 2 * rl.base_rate)

\* an adjustment has just raised the rate to the ceiling, twice base_rate
C16_Witness ==
    /\ sys = "limiter"
    /\ rl.op = "should_allow"
    /\ rl.last_adjustment = now
    /\ rl.current_rate = Whole(2 * BASE_RATE)

\* C17: whenever the aggregates of the SlidingWindow are read, right after
\* an add or later, no event added more than window_size seconds before that
\* moment is included in them (the events' amounts being numbers).
C17_AggregatesAtAnyTime ==
    (/\ sys = "window"
     /\ \A i \in DOMAIN win.added :
           win.added[i].event.amount # NotANumber) =>
        /\ win.aggregates = _update_aggregates(win.events)
        /\ \A i \in DOMAIN win.events : now - win.events[i].time <= WINDOW_SIZE

\* C18: right after add_event returns, the aggregates are those computed
\* from scratch over the events added within (now - window_size, now], an
\* entry added at exactly now - window_size not among them (the events'
\* amounts being numbers).
C18_AggregatesAfterAdd ==
    (/\ sys = "window"
     /\ win.added # <<>>
     /\ \A i \in DOMAIN win.added :
           win.added[i].event.amount # NotANumber
     /\ win.added[Len(win.added)].time = now) =>
        win.aggregates =
            _update_aggregates(SelectSeq(win.added,
                LAMBDA en : en.time > now - WINDOW_SIZE /\ en.time <= now))

\* C19: purchase_funnel is detected exactly when page_view, click and
\* purchase each occur in the session buffer and the first page_view comes
\* before the first click and the first click before the first purchase;
\* conversion_time is then the timestamp of the first purchase minus the
\* timestamp of the first page_view.
C19_FunnelFires ==
    sys = "cep" =>
        LET B == cep.buffer
            At(ty) == {i \in DOMAIN B : B[i].event_type = ty}
            First(ty) == CHOOSE i \in At(ty) : \A j \in At(ty) : i <= j
            fires == /\ At("page_view") # {}
                     /\ At("click") # {}
                     /\ At("purchase") # {}
                     /\ First("page_view") < First("click")
                     /\ First("click") < First("purchase")
        IN  /\ cep.detected.purchase_funnel # {} <=> fires
            /\ \A r \in cep.detected.purchase_funnel :
                  r.conversion_time = B[First("purchase")].timestamp
                                      - B[First("page_view")].timestamp

\* the funnel is detected in a buffer of four events in which a page_view
\* follows the purchase
C19_Witness ==
    /\ sys = "cep"
    /\ cep.detected.purchase_funnel # {}
    /\ Len(cep.buffer) = 4
    /\ cep.buffer[4].event_type = "page_view"
    /\ \E r \in cep.detected.purchase_funnel : r.conversion_time = 119998

\* C20: the fraud pattern is detected exactly when the session buffer holds
\* at least 3 purchases and every two consecutive purchases are less than
\* 60,000 ms apart.
C20_FraudFires ==
    sys = "cep" =>
        LET P == SelectSeq(cep.buffer, LAMBDA e : e.event_type = "purchase")
            Apart(a, b) == IF a >= b THEN a - b ELSE b - a
        IN  cep.detected.fraud_pattern # {} <=>
                /\ Len(P) >= 3
                /\ \A i \in 2..Len(P) :
                      Apart(P[i].timestamp, P[i - 1].timestamp) < 60000

\* C21: process_event reports churn_risk whenever the events received for
\* the session include events older than 24 hours and the rate of the events
\* of the last 24 hours is below 30% of the rate of the older ones.
C21_ChurnReported ==
    [][(sys = "cep" /\ cep'.received # cep.received) =>
        LET R == cep'.received
            older == SelectSeq(R,
                         LAMBDA e : e.timestamp <= (now - DAY_SECONDS) * 1000)
            recent_rate == Len(R) - Len(older)
            older_rate == IF Len(older) <= 10 THEN Len(older) ELSE 10
        IN  (Len(older) > 0 /\ 10 * recent_rate < 3 * older_rate) =>
                cep'.detected.churn_risk # {}]_vars

\* C23: when the detector has handled a message whose analysis result has a
\* combined score greater than 0.5, the external store holds the anomaly
\* record of that event, and every record in the store has the 24-hour
\* expiry.
C23_AnomalyPersisted ==
    sys = "ml" =>
        /\ (ml.pc = "ack" /\ ml.analysis.combined_anomaly_score > BUFFER_THRESHOLD)
              => \E r \in anomalies : r.key = ml.analysis.event_id
        /\ \A r \in anomalies : r.ttl = ANOMALY_TTL

\* C22: the combined score analyze_event returns is the maximum of the
\* learned score and the largest triggered behavioral sub-score, lies in
\* [0, 1], and is_anomaly is true exactly when it is greater than 0.7.
C22_CombinedScore ==
    sys = "detector" =>
        LET r == det.result
            all == {r.ml_anomaly_score}
                       \cup {a.score : a \in r.behavioral_anomalies}
        IN  /\ r.combined_anomaly_score \in all
            /\ \A x \in all : x <= r.combined_anomaly_score
            /\ r.combined_anomaly_score >= 0
            /\ r.combined_anomaly_score <= 1000
            /\ r.is_anomaly <=> r.combined_anomaly_score > 700

\* a learned score of 0.701 is the maximum, over a triggered sub-score of 0.3
C22_Witness ==
    /\ sys = "detector"
    /\ det.result.ml_anomaly_score = 701
    /\ det.result.combined_anomaly_score = 701
    /\ det.result.is_anomaly
    /\ \E a \in det.result.behavioral_anomalies : a.score = 300

\* C24: the scaler and the isolation forest a scoring call computes with
\* come from the same training run.
C24_ModelFromOneRun ==
    sys = "detector" => det.used.scaler = det.used.isolation_forest

\* C25: the map make_event(i) returns has the keys event_id, user_id,
\* event_type and ts, every value in it is a string and none is None, its
\* event_id is the decimal text of i, and its event_type is one of click,
\* view, purchase, signup, logout, search.
C25_EventShape ==
    (sys = "make_event" /\ src.ev # <<>>) =>
        LET ev == src.ev
            digits == <<"0", "1", "2", "3", "4", "5", "6", "7", "8", "9">>
            RECURSIVE number(_)
            number(text) ==
                IF text = <<>> THEN 0
                ELSE 10 * number(SubSeq(text, 1, Len(text) - 1))
                     + (CHOOSE d \in 0..9 : digits[d + 1] = text[Len(text)])
            id == ev["event_id"].text
        IN  /\ {"event_id", "user_id", "event_type", "ts"} \subseteq DOMAIN ev
            /\ \A k \in DOMAIN ev : ev[k].py = "str"
            /\ id # <<>>
            /\ \A n \in DOMAIN id : \E d \in 0..9 : digits[d + 1] = id[n]
            /\ Len(id) > 1 => id[1] # "0"
            /\ number(id) = src.i
            /\ ev["event_type"].text \in
                  {"click", "view", "purchase", "signup", "logout", "search"}

\* make_event(12) with the product left out
C25_Witness ==
    /\ sys = "make_event"
    /\ src.i = 12
    /\ src.ev # <<>>
    /\ src.ev["event_id"].text = <<"1", "2">>
    /\ "product" \notin DOMAIN src.ev

\* C27: after update_aggregates has returned or raised for a message, either
\* every counter of the message (type count, session events, product count,
\* total_count) has been incremented or none has.
C27_UpdateAllOrNone ==
    sys = "aggregates" =>
        LET m == agg.last.msg
            counters == {"total_count"}
                \cup (IF m.event_type # "" THEN {"type"} ELSE {})
                \cup (IF m.session_id # "" THEN {"session"} ELSE {})
                \cup (IF m.product # "" THEN {"product"} ELSE {})
            grew(k) == agg.hash[k] = agg.last.before[k] + 1
            same(k) == agg.hash[k] = agg.last.before[k]
        IN  agg.calls > 0 =>
               \/ \A k \in counters : grew(k)
               \/ \A k \in counters : same(k)

C28_CountedOnce ==
    sys = "basic" =>
        \A k \in DOMAIN stream :
            /\ stream[k].counted <= 1
            /\ stream[k].st = "acked" => stream[k].counted = 1

\* C26: when the processor is running again and the stream holds a message
\* that was appended while it was down and has not been counted, then
\* eventually total_count has been incremented for every such message,
\* unless a store call raises.
C26_CountedAfterRestart ==
    (/\ cons["proc-1"].alive
     /\ \E k \in DOMAIN stream :
           stream[k].missed /\ stream[k].counted = 0)
    ~> (\/ ~\E k \in DOMAIN stream :
                stream[k].missed /\ stream[k].counted = 0
        \/ faults.store < MaxFaults)

\* the restarted processor has counted a message appended while it was down
C26_Witness ==
    /\ cons["proc-1"].alive
    /\ faults.store = MaxFaults
    /\ \E k \in DOMAIN stream : stream[k].missed /\ stream[k].counted = 1

\* C30: with the default configuration, every event the advanced producer
\* has appended is eventually read by a stage processor.
C30_ProducedEventuallyRead ==
    \A k \in 1 .. MaxProduced :
        (k \in DOMAIN stream) ~> (k \in DOMAIN stream /\ ~IsNew(stream[k]))

\* C38: between the calls through the breaker, a closed breaker has
\* failure_count below failure_threshold, an open one has failure_count at
\* least failure_threshold and last_failure_time set, and the breaker is
\* never half-open.
C38_BreakerStates ==
    sys = "breaker" =>
        /\ cb.state = "closed" => cb.failure_count < FAILURE_THRESHOLD
        /\ cb.state = "open" =>
              /\ cb.failure_count >= FAILURE_THRESHOLD
              /\ cb.last_failure_time # None
        /\ cb.state # "half-open"

\* the breaker has been open, a probe has succeeded and closed it, and
\* a later call has failed
C38_Witness ==
    /\ sys = "breaker"
    /\ cb.state = "closed"
    /\ cb.failure_count = 1
    /\ cb.last_failure_time > TIMEOUT

\* C39: a successful call made while the breaker is closed leaves
\* failure_count as it is; failure_count becomes 0 only by a half-open probe
\* that succeeds; and a failing call that brings failure_count to
\* failure_threshold opens the breaker, whatever calls succeeded before it.
C39_FailureCountFrame ==
    [][(sys = "breaker" /\ now' = now) =>
          /\ (cb.state = "closed" /\ cb'.outcome = "returned") =>
                cb'.failure_count = cb.failure_count
          /\ (cb.failure_count # 0 /\ cb'.failure_count = 0) =>
                cb.state = "open" /\ cb'.probe /\ cb'.outcome = "returned"
          /\ (cb'.outcome = "raised"
                /\ cb'.failure_count >= FAILURE_THRESHOLD) =>
                cb'.state = "open"
      ]_vars

\* failure_threshold failures with a successful call among them have
\* opened the breaker
C39_Witness ==
    /\ sys = "breaker"
    /\ cb.state = "open"
    /\ cb.failure_count = FAILURE_THRESHOLD
    /\ cb.outcome = "raised"
    /\ cb.run = None
    /\ now = 0

\* C40: an add_event call that raises leaves the window's retained entries
\* as they were before the call, and an add_event call for an event whose
\* amount is a number or absent does not raise.
C40_RaisingAddLeavesWindow ==
    [][(sys = "window" /\ Len(win'.added) = Len(win.added) + 1) =>
          /\ win'.raised => win'.events = win.events
          /\ win'.added[Len(win'.added)].event.amount # NotANumber =>
                ~win'.raised
      ]_vars

\* C37: in a cycle of the advanced stage processor a message is
\* acknowledged only after the ProcessedEvents of the batch have been
\* appended to the output stream, and a cycle whose output append fails ends
\* without acknowledging any message.
C37_OutputBeforeAck ==
    [][sys = "adv" =>
          /\ PendingIds' # PendingIds =>
                \/ PendingIds \subseteq PendingIds'
                \/ /\ adv.pc = "ack"
                   /\ Len(out) >= Len(adv.processed_events)
                   /\ SubSeq(out, Len(out) - Len(adv.processed_events) + 1,
                             Len(out)) = adv.processed_events
          /\ (/\ adv.pc = "write" /\ adv' # adv
              /\ adv.processed_events # <<>> /\ out' = out) =>
                /\ adv'.pc = "read"
                /\ PendingIds' = PendingIds
      ]_vars

\* an output append has failed and the cycle has ended with the messages of
\* its ack_ids still pending
C37_Witness ==
    /\ sys = "adv"
    /\ adv.pc = "read"
    /\ adv.ack_ids # <<>>
    /\ Range(adv.ack_ids) \subseteq PendingIds

C31_FailedWritesLowerRate ==
    [][(/\ sys = "producer"
        /\ rl'.last_adjustment # rl.last_adjustment
        /\ 10 * rl.error_count > prod.attempted) =>
            LET r == rl.current_rate
                q == rl'.current_rate
            IN  \/ q.num * r.den < r.num * q.den
                \/ r = Whole(rl.base_rate \div 10)]_vars

\* C34: the ml_inference stage's scorer retrains only from 100 samples on
\* and, after a retraining, not before 50 more samples have accumulated, at
\* every fill level of the ring.
C34_RetrainEvery50 ==
    [][(sys = "scorer" /\ ml_detector'.samples # ml_detector.samples
          /\ ml_detector'.retrained) =>
            /\ ml_detector'.samples >= MIN_SAMPLES
            /\ ml_detector.last_fit # 0 =>
                  ml_detector'.samples - ml_detector.last_fit >= RETRAIN_EVERY]_vars

\* C35: the unusual-purchase sub-score is reported for a purchase of a user
\* with earlier purchases exactly when its amount is more than 5 times the
\* average of those earlier purchases.
C35_UnusualPurchase ==
    [][(/\ sys = "baseline"
        /\ user_baselines'.received # user_baselines.received
        /\ user_baselines'.received[Len(user_baselines'.received)].event_type
              = "purchase"
        /\ user_baselines.purchases # <<>>) =>
          LET RECURSIVE sum(_)
              sum(q) == IF q = <<>> THEN 0 ELSE Head(q) + sum(Tail(q))
              earlier == user_baselines.purchases
              amount == user_baselines'.received[Len(user_baselines'.received)].amount
          IN  user_baselines'.unusual_purchase
                = (amount * Len(earlier) > 5 * sum(earlier))]_vars

\* C36: after an update_user_baseline call every component of the user's
\* baseline is that of the user's events of the trailing 7 days: the events,
\* their sessions and the session count, their purchases and the average
\* purchase amount, and the average number of events per session.
C36_BaselineOfLastWeek ==
    [][(sys = "baseline"
          /\ user_baselines'.received # user_baselines.received) =>
          LET RECURSIVE sum(_)
              sum(q) == IF q = <<>> THEN 0 ELSE Head(q) + sum(Tail(q))
              b == user_baselines'
              recent == SelectSeq(b.received,
                            LAMBDA e : e.timestamp > (now - WEEK_SECONDS) * 1000)
              bought == SelectSeq(recent, LAMBDA e : e.event_type = "purchase")
              amounts == [i \in DOMAIN bought |-> bought[i].amount]
              sessions == {recent[i].session_id : i \in DOMAIN recent}
          IN  /\ b.events = recent
              /\ b.sessions = sessions
              /\ b.sessions_count = Cardinality(sessions)
              /\ b.purchases = amounts
              /\ b.avg_purchase_amount.num * Len(amounts)
                    = sum(amounts) * b.avg_purchase_amount.den
              /\ b.avg_session_events.num * Cardinality(sessions)
                    = Len(recent) * b.avg_session_events.den]_vars

\* C33: once the detector's feature buffer holds at least 100 samples a
\* training run eventually takes place and the learned scorer is ready, also
\* while every read returns messages; until then the learned score is 0.
C33_TrainingEventually ==
    /\ (svc.feature_buffer >= TRAIN_MIN) ~> svc.is_trained
    /\ [](sys = "service" /\ ~svc.is_trained => svc.ml_score = "zero")

====
